---- MODULE Spec2Model ----
(***************************************************************************)
(* SennaWallet (contracts/SennaWallet.sol): a multi-signature wallet with  *)
(* per-transaction and daily limits, an AI agent and a delayed recovery.   *)
(*                                                                         *)
(* Every external function of the contract is one action.  A function is   *)
(* first written as an operator from the contract storage (a record w),    *)
(* the message sender and the arguments to a result [ok, err, w, ...]; err *)
(* is the revert string of the require that failed.  A revert restores the *)
(* storage of the whole outer call, so the r.w of a call that reverts is   *)
(* the storage from before the call.  Amounts are counted in units of 0.1  *)
(* ether and time in seconds.                                              *)
(*                                                                         *)
(* The low-level calls of executeTransaction and executeAITransaction hand *)
(* control to the target, and the contract has no re-entrancy guard: the   *)
(* target may call the external functions of the wallet, itself or        *)
(* through another contract, on the storage as it stands in the middle of  *)
(* the outer call, and the functions of the token, before it returns.      *)
(* What a target does is the argument callee of the functions that reach a *)
(* low-level call: whether it returns success, and the calls it makes      *)
(* before.  When the target is the token the call runs the function or the *)
(* getter of SennaToken that the calldata selects, with the wallet as      *)
(* msg.sender.  An action is the whole outer call with all that runs       *)
(* inside it.  The wallet is never the target of its own transfer.         *)
(*                                                                         *)
(* now is block.timestamp.  last, submitter and consumedAt are history     *)
(* variables: the last call that did not revert, with the calls that ran   *)
(* inside it; for every transaction the sender of the submitTransaction    *)
(* that created it (the contract does not store it); and for every account *)
(* the block.timestamp of the call in which an execution was first added   *)
(* to its dailySpent, 0 while there was none.  token is the storage of     *)
(* SennaToken (contracts/SennaToken.sol), the ERC-20 ledger whose mint is  *)
(* reserved to the address in its sennaWallet slot.                        *)
(* A call that reverts leaves no trace on the chain: it is a stuttering    *)
(* step, and its revert string is read from the function's result.         *)
(***************************************************************************)
EXTENDS Integers, Sequences, FiniteSets, TLC

VARIABLES owners, isOwner, requiredConfirmations, transactions, isConfirmed,
          settings, aiAgent, lastTransactionTime, dailySpent,
          pendingRecoveryOwner, recoveryInitTime, events, now, last,
          submitter, consumedAt, token

vars == <<owners, isOwner, requiredConfirmations, transactions, isConfirmed,
          settings, aiAgent, lastTransactionTime, dailySpent,
          pendingRecoveryOwner, recoveryInitTime, events, now, last,
          submitter, consumedAt, token>>

(***************************************************************************)
(* Bounds of the model.                                                    *)
(***************************************************************************)
MaxTx == 2
MaxTxLimit == 3
MaxTxWallet == 1
MaxOwners == 3
MaxDays == 2
MaxDelays == 2
MaxTxWindow == 2
MaxDaysWindow == 1
MaxDelaysRecovery == 2
MaxTxAccess == 1
MaxTxAutomated == 1
MaxTxReentrant == 2
MaxReentry == 1
MaxSupply == 2
MaxTxToken == 1
InitialSupply == 1
StartTime == 1000000

(***************************************************************************)
(* Program constants.                                                      *)
(***************************************************************************)
DAY == 86400
RECOVERY_DELAY == 604800
AI_LIMIT == 1
DefaultDailyLimit == 100
DefaultTransactionLimit == 50

Null == "0x0"
Account == {"A", "B", "C"}
Address == Account \cup {Null}

\* address(this) of the wallet and the address of the token contract; the
\* token keeps balances for the accounts and for the wallet
WalletAddress == "W"
TokenAddress == "T"
Holder == Address \cup {WalletAddress}

\* the calldata of a call: the function of SennaToken it selects with its
\* arguments; NoData is the empty calldata
Calldata(fn, from, to, value) ==
  [fn |-> fn, from |-> from, to |-> to, value |-> value]
NoData == Calldata("", Null, Null, 0)

(***************************************************************************)
(* The storage of the wallet as one record, with the storage of the token  *)
(* in the field token: a call of the wallet reaches the token when the     *)
(* target of a transfer is the token.                                      *)
(***************************************************************************)
W ==
  [owners |-> owners, isOwner |-> isOwner,
   requiredConfirmations |-> requiredConfirmations,
   transactions |-> transactions, isConfirmed |-> isConfirmed,
   settings |-> settings, aiAgent |-> aiAgent,
   lastTransactionTime |-> lastTransactionTime, dailySpent |-> dailySpent,
   pendingRecoveryOwner |-> pendingRecoveryOwner,
   recoveryInitTime |-> recoveryInitTime, events |-> events,
   token |-> token]

\* the result of a call.  transfers lists the txIds whose external call was
\* made in the call and not undone, submitted the msg.sender of every
\* transaction pushed in the call and not undone, confirmed the
\* <<txId, msg.sender>> of every confirmTransaction that ran in the call
\* and was not undone, calls the calls that the targets of the transfers
\* made, and the wallet to the token, and that were not undone, in the
\* order in which they returned.
Revert(w, msg) ==
  [ok |-> FALSE, err |-> msg, w |-> w, transfers |-> <<>>,
   submitted |-> <<>>, confirmed |-> <<>>, calls |-> <<>>]
ReturnR(w, transfers, submitted, confirmed, calls) ==
  [ok |-> TRUE, err |-> "", w |-> w, transfers |-> transfers,
   submitted |-> submitted, confirmed |-> confirmed, calls |-> calls]
Return(w) == ReturnR(w, <<>>, <<>>, <<>>, <<>>)
\* a function with a return value
ReturnsR(w, ret, transfers, submitted, confirmed, calls) ==
  [ok |-> TRUE, err |-> "", w |-> w, ret |-> ret, transfers |-> transfers,
   submitted |-> submitted, confirmed |-> confirmed, calls |-> calls]
Returns(w, ret) == ReturnsR(w, ret, <<>>, <<>>, <<>>, <<>>)
\* the result r of the rest of a confirmTransaction(txId) called by sender
\* that has gone through: the confirmation it has recorded comes first
Confirms(r, txId, sender) ==
  [r EXCEPT !.confirmed = <<<<txId, sender>>>> \o @]

\* emit of a ledger event: events[_txId] holds, in the order of emission,
\* the events of the log whose indexed txId is _txId.  The other events
\* (Deposit, WalletSettingsUpdated, RecoveryInitiated, RecoveryCompleted)
\* are not kept.
Emit(w, txId, e) ==
  IF txId < Len(w.events)
  THEN [w EXCEPT !.events[txId + 1] = Append(@, e)]
  ELSE [w EXCEPT !.events = Append(@, <<e>>)]

\* transactions[_txId]: the array is indexed from 0
Tx(w, txId) == w.transactions[txId + 1]

(***************************************************************************)
(* Internal functions.                                                     *)
(***************************************************************************)
\* _checkDailyLimit that compares with < instead of <=
checkDailyLimit_strict(w, t, owner, value) ==
  LET w1 == IF t >= w.lastTransactionTime[owner] + DAY
            THEN [w EXCEPT !.dailySpent[owner] = 0,
                           !.lastTransactionTime[owner] = t]
            ELSE w
  IN IF ~(w1.dailySpent[owner] + value < w1.settings.dailyLimit)
     THEN Revert(w, "exceeds daily limit")
     ELSE Return(w1)

checkDailyLimit(w, t, owner, value) ==
  LET w1 == IF t >= w.lastTransactionTime[owner] + DAY
            THEN [w EXCEPT !.dailySpent[owner] = 0,
                           !.lastTransactionTime[owner] = t]
            ELSE w
  IN IF ~(w1.dailySpent[owner] + value <= w1.settings.dailyLimit)
     THEN Revert(w, "exceeds daily limit")
     ELSE Return(w1)

updateDailySpending(w, t, owner, value) ==
  [w EXCEPT !.dailySpent[owner] = @ + value,
            !.lastTransactionTime[owner] = t]

(***************************************************************************)
(* Transaction management.  The low-level call of executeTransaction hands *)
(* control to the target, which may call back into the wallet (there is no *)
(* re-entrancy guard) before it returns: callee tells what the code at the *)
(* target does, see externalCall.                                          *)
(***************************************************************************)
\* the code after a call, F, acts on what the call has returned, r
Then(r, F(_)) == F(r)

RECURSIVE externalCall(_, _, _, _, _, _)
RECURSIVE executeTransaction(_, _, _, _, _)
RECURSIVE confirmTransaction(_, _, _, _, _)
RECURSIVE submitTransaction(_, _, _, _, _, _, _)
RECURSIVE executeAITransaction(_, _, _, _, _, _, _)
RECURSIVE callBack(_, _, _, _)
RECURSIVE callBacks(_, _, _, _)

\* executeTransaction without the require on confirmationCount
executeTransaction_noQuorum(w, t, sender, txId, callee) ==
  IF ~w.isOwner[sender] THEN Revert(w, "caller is not an owner")
  ELSE IF ~(txId < Len(w.transactions))
    THEN Revert(w, "transaction does not exist")
  ELSE IF Tx(w, txId).executed
    THEN Revert(w, "transaction already executed")
  ELSE
    LET w1 == [w EXCEPT !.transactions[txId + 1].executed = TRUE]
        w2 == updateDailySpending(w1, t, sender, Tx(w1, txId).value)
    IN Then(externalCall(w2, t, Tx(w2, txId).to, Tx(w2, txId).value,
                         Tx(w2, txId).data, callee),
            LAMBDA x :
              IF ~x.ok THEN Revert(w, "transaction execution failed")
              ELSE ReturnR(Emit(x.w, txId, <<"TransactionExecuted", sender>>),
                           <<txId>> \o x.transfers, x.submitted, x.confirmed,
                           x.calls))

\* executeTransaction without the notExecuted modifier
executeTransaction_noNotExecuted(w, t, sender, txId, callee) ==
  IF ~w.isOwner[sender] THEN Revert(w, "caller is not an owner")
  ELSE IF ~(txId < Len(w.transactions))
    THEN Revert(w, "transaction does not exist")
  ELSE IF ~(Tx(w, txId).confirmationCount >= w.requiredConfirmations)
    THEN Revert(w, "cannot execute tx")
  ELSE
    LET w1 == [w EXCEPT !.transactions[txId + 1].executed = TRUE]
        w2 == updateDailySpending(w1, t, sender, Tx(w1, txId).value)
    IN Then(externalCall(w2, t, Tx(w2, txId).to, Tx(w2, txId).value,
                         Tx(w2, txId).data, callee),
            LAMBDA x :
              IF ~x.ok THEN Revert(w, "transaction execution failed")
              ELSE ReturnR(Emit(x.w, txId, <<"TransactionExecuted", sender>>),
                           <<txId>> \o x.transfers, x.submitted, x.confirmed,
                           x.calls))

\* executeTransaction that keeps its writes when the external call fails
executeTransaction_noRollback(w, t, sender, txId, callee) ==
  IF ~w.isOwner[sender] THEN Revert(w, "caller is not an owner")
  ELSE IF ~(txId < Len(w.transactions))
    THEN Revert(w, "transaction does not exist")
  ELSE IF Tx(w, txId).executed
    THEN Revert(w, "transaction already executed")
  ELSE IF ~(Tx(w, txId).confirmationCount >= w.requiredConfirmations)
    THEN Revert(w, "cannot execute tx")
  ELSE
    LET w1 == [w EXCEPT !.transactions[txId + 1].executed = TRUE]
        w2 == updateDailySpending(w1, t, sender, Tx(w1, txId).value)
    IN Then(externalCall(w2, t, Tx(w2, txId).to, Tx(w2, txId).value,
                         Tx(w2, txId).data, callee),
           LAMBDA x : IF ~x.ok THEN Revert(w2, "transaction execution failed")
                      ELSE ReturnR(Emit(x.w, txId, <<"TransactionExecuted", sender>>),
                                   <<txId>> \o x.transfers, x.submitted, x.confirmed,
                           x.calls))

\* executeTransaction that emits no TransactionExecuted
executeTransaction_noEvent(w, t, sender, txId, callee) ==
  IF ~w.isOwner[sender] THEN Revert(w, "caller is not an owner")
  ELSE IF ~(txId < Len(w.transactions))
    THEN Revert(w, "transaction does not exist")
  ELSE IF Tx(w, txId).executed
    THEN Revert(w, "transaction already executed")
  ELSE IF ~(Tx(w, txId).confirmationCount >= w.requiredConfirmations)
    THEN Revert(w, "cannot execute tx")
  ELSE
    LET w1 == [w EXCEPT !.transactions[txId + 1].executed = TRUE]
        w2 == updateDailySpending(w1, t, sender, Tx(w1, txId).value)
    IN Then(externalCall(w2, t, Tx(w2, txId).to, Tx(w2, txId).value,
                         Tx(w2, txId).data, callee),
           LAMBDA x : IF ~x.ok THEN Revert(w, "transaction execution failed")
                      ELSE ReturnR(x.w, <<txId>> \o x.transfers, x.submitted, x.confirmed,
                           x.calls))

\* executeTransaction that checks the value against transactionLimit again
executeTransaction_checksLimit(w, t, sender, txId, callee) ==
  IF ~w.isOwner[sender] THEN Revert(w, "caller is not an owner")
  ELSE IF ~(txId < Len(w.transactions))
    THEN Revert(w, "transaction does not exist")
  ELSE IF Tx(w, txId).executed
    THEN Revert(w, "transaction already executed")
  ELSE IF ~(Tx(w, txId).confirmationCount >= w.requiredConfirmations)
    THEN Revert(w, "cannot execute tx")
  ELSE IF ~(Tx(w, txId).value <= w.settings.transactionLimit)
    THEN Revert(w, "exceeds transaction limit")
  ELSE
    LET w1 == [w EXCEPT !.transactions[txId + 1].executed = TRUE]
        w2 == updateDailySpending(w1, t, sender, Tx(w1, txId).value)
    IN Then(externalCall(w2, t, Tx(w2, txId).to, Tx(w2, txId).value,
                         Tx(w2, txId).data, callee),
            LAMBDA x :
              IF ~x.ok THEN Revert(w, "transaction execution failed")
              ELSE ReturnR(Emit(x.w, txId, <<"TransactionExecuted", sender>>),
                           <<txId>> \o x.transfers, x.submitted, x.confirmed,
                           x.calls))

\* executeTransaction that sets executed and the spending after the call
executeTransaction_flagAfterCall(w, t, sender, txId, callee) ==
  IF ~w.isOwner[sender] THEN Revert(w, "caller is not an owner")
  ELSE IF ~(txId < Len(w.transactions))
    THEN Revert(w, "transaction does not exist")
  ELSE IF Tx(w, txId).executed
    THEN Revert(w, "transaction already executed")
  ELSE IF ~(Tx(w, txId).confirmationCount >= w.requiredConfirmations)
    THEN Revert(w, "cannot execute tx")
  ELSE
    Then(externalCall(w, t, Tx(w, txId).to, Tx(w, txId).value,
                      Tx(w, txId).data, callee),
         LAMBDA x :
           LET w1 == [x.w EXCEPT !.transactions[txId + 1].executed = TRUE]
               w2 == updateDailySpending(w1, t, sender, Tx(w1, txId).value)
           IN IF ~x.ok THEN Revert(w, "transaction execution failed")
              ELSE ReturnR(Emit(w2, txId, <<"TransactionExecuted", sender>>),
                           <<txId>> \o x.transfers, x.submitted, x.confirmed,
                           x.calls))

executeTransaction(w, t, sender, txId, callee) ==
  IF ~w.isOwner[sender] THEN Revert(w, "caller is not an owner")
  ELSE IF ~(txId < Len(w.transactions))
    THEN Revert(w, "transaction does not exist")
  ELSE IF Tx(w, txId).executed
    THEN Revert(w, "transaction already executed")
  ELSE IF ~(Tx(w, txId).confirmationCount >= w.requiredConfirmations)
    THEN Revert(w, "cannot execute tx")
  ELSE
    LET w1 == [w EXCEPT !.transactions[txId + 1].executed = TRUE]
        w2 == updateDailySpending(w1, t, sender, Tx(w1, txId).value)
    IN Then(externalCall(w2, t, Tx(w2, txId).to, Tx(w2, txId).value,
                         Tx(w2, txId).data, callee),
            LAMBDA x :
              IF ~x.ok THEN Revert(w, "transaction execution failed")
              ELSE ReturnR(Emit(x.w, txId, <<"TransactionExecuted", sender>>),
                           <<txId>> \o x.transfers, x.submitted, x.confirmed,
                           x.calls))

\* confirmTransaction without the notConfirmed modifier
confirmTransaction_noNotConfirmed(w, t, sender, txId, callee) ==
  IF ~w.isOwner[sender] THEN Revert(w, "caller is not an owner")
  ELSE IF ~(txId < Len(w.transactions))
    THEN Revert(w, "transaction does not exist")
  ELSE IF Tx(w, txId).executed
    THEN Revert(w, "transaction already executed")
  ELSE
    LET w1 == [w EXCEPT !.isConfirmed = @ \cup {<<txId, sender>>},
                        !.transactions[txId + 1].confirmationCount = @ + 1]
        w2 == Emit(w1, txId, <<"TransactionConfirmed", sender>>)
    IN IF Tx(w2, txId).confirmationCount >= w2.requiredConfirmations
       THEN Then(executeTransaction(w2, t, sender, txId, callee),
                 LAMBDA r : IF r.ok THEN Confirms(r, txId, sender)
                            ELSE Revert(w, r.err))
       ELSE Confirms(Return(w2), txId, sender)

\* confirmTransaction whose writes survive a revert of the cascaded execute
confirmTransaction_keepsConfirmation(w, t, sender, txId, callee) ==
  IF ~w.isOwner[sender] THEN Revert(w, "caller is not an owner")
  ELSE IF ~(txId < Len(w.transactions))
    THEN Revert(w, "transaction does not exist")
  ELSE IF Tx(w, txId).executed
    THEN Revert(w, "transaction already executed")
  ELSE IF <<txId, sender>> \in w.isConfirmed
    THEN Revert(w, "transaction already confirmed")
  ELSE
    LET w1 == [w EXCEPT !.isConfirmed = @ \cup {<<txId, sender>>},
                        !.transactions[txId + 1].confirmationCount = @ + 1]
        w2 == Emit(w1, txId, <<"TransactionConfirmed", sender>>)
    IN IF Tx(w2, txId).confirmationCount >= w2.requiredConfirmations
       THEN Then(executeTransaction(w2, t, sender, txId, callee),
                 LAMBDA r : IF r.ok THEN Confirms(r, txId, sender)
                            ELSE Revert(w2, r.err))
       ELSE Confirms(Return(w2), txId, sender)

\* confirmTransaction that records the confirmation and never executes
confirmTransaction_noCascade(w, t, sender, txId, callee) ==
  IF ~w.isOwner[sender] THEN Revert(w, "caller is not an owner")
  ELSE IF ~(txId < Len(w.transactions))
    THEN Revert(w, "transaction does not exist")
  ELSE IF Tx(w, txId).executed
    THEN Revert(w, "transaction already executed")
  ELSE IF <<txId, sender>> \in w.isConfirmed
    THEN Revert(w, "transaction already confirmed")
  ELSE
    LET w1 == [w EXCEPT !.isConfirmed = @ \cup {<<txId, sender>>},
                        !.transactions[txId + 1].confirmationCount = @ + 1]
        w2 == Emit(w1, txId, <<"TransactionConfirmed", sender>>)
    IN Confirms(Return(w2), txId, sender)

\* confirmTransaction whose owner check lets the AI agent pass
confirmTransaction_agentIsOwner(w, t, sender, txId, callee) ==
  IF ~(w.isOwner[sender] \/ sender = w.aiAgent) THEN Revert(w, "caller is not an owner")
  ELSE IF ~(txId < Len(w.transactions))
    THEN Revert(w, "transaction does not exist")
  ELSE IF Tx(w, txId).executed
    THEN Revert(w, "transaction already executed")
  ELSE IF <<txId, sender>> \in w.isConfirmed
    THEN Revert(w, "transaction already confirmed")
  ELSE
    LET w1 == [w EXCEPT !.isConfirmed = @ \cup {<<txId, sender>>},
                        !.transactions[txId + 1].confirmationCount = @ + 1]
        w2 == Emit(w1, txId, <<"TransactionConfirmed", sender>>)
    IN IF Tx(w2, txId).confirmationCount >= w2.requiredConfirmations
       THEN Then(executeTransaction(w2, t, sender, txId, callee),
                 LAMBDA r : IF r.ok THEN Confirms(r, txId, sender)
                            ELSE Revert(w, r.err))
       ELSE Confirms(Return(w2), txId, sender)

confirmTransaction(w, t, sender, txId, callee) ==
  IF ~w.isOwner[sender] THEN Revert(w, "caller is not an owner")
  ELSE IF ~(txId < Len(w.transactions))
    THEN Revert(w, "transaction does not exist")
  ELSE IF Tx(w, txId).executed
    THEN Revert(w, "transaction already executed")
  ELSE IF <<txId, sender>> \in w.isConfirmed
    THEN Revert(w, "transaction already confirmed")
  ELSE
    LET w1 == [w EXCEPT !.isConfirmed = @ \cup {<<txId, sender>>},
                        !.transactions[txId + 1].confirmationCount = @ + 1]
        w2 == Emit(w1, txId, <<"TransactionConfirmed", sender>>)
    IN IF Tx(w2, txId).confirmationCount >= w2.requiredConfirmations
       THEN Then(executeTransaction(w2, t, sender, txId, callee),
                 LAMBDA r : IF r.ok THEN Confirms(r, txId, sender)
                            ELSE Revert(w, r.err))
       ELSE Confirms(Return(w2), txId, sender)

\* submitTransaction that confirms for every sender
submitTransaction_alwaysConfirms(w, t, sender, to, value, data, callee) ==
  IF ~w.isOwner[sender] THEN Revert(w, "caller is not an owner")
  ELSE IF ~(to # Null) THEN Revert(w, "invalid recipient")
  ELSE IF ~(value <= w.settings.transactionLimit)
    THEN Revert(w, "exceeds transaction limit")
  ELSE
    LET c == checkDailyLimit(w, t, sender, value)
    IN IF ~c.ok THEN Revert(w, c.err)
       ELSE
         LET txId == Len(c.w.transactions)
             w1 == [c.w EXCEPT !.transactions = Append(@,
                       [to |-> to, value |-> value, data |-> data,
                        executed |-> FALSE, confirmationCount |-> 0])]
             w2 == Emit(w1, txId, <<"TransactionCreated", to>>)
         IN Then(confirmTransaction(w2, t, sender, txId, callee),
                 LAMBDA r :
                   IF r.ok
                   THEN ReturnsR(r.w, txId, r.transfers,
                                 <<sender>> \o r.submitted, r.confirmed,
                                      r.calls)
                   ELSE Revert(w, r.err))

\* submitTransaction without the require on transactionLimit
submitTransaction_noTransactionLimit(w, t, sender, to, value, data, callee) ==
  IF ~w.isOwner[sender] THEN Revert(w, "caller is not an owner")
  ELSE IF ~(to # Null) THEN Revert(w, "invalid recipient")
  ELSE
    LET c == checkDailyLimit(w, t, sender, value)
    IN IF ~c.ok THEN Revert(w, c.err)
       ELSE
         LET txId == Len(c.w.transactions)
             w1 == [c.w EXCEPT !.transactions = Append(@,
                       [to |-> to, value |-> value, data |-> data,
                        executed |-> FALSE, confirmationCount |-> 0])]
             w2 == Emit(w1, txId, <<"TransactionCreated", to>>)
         IN IF sender = w2.aiAgent \/ w2.requiredConfirmations = 1
            THEN Then(confirmTransaction(w2, t, sender, txId, callee),
                      LAMBDA r :
                        IF r.ok
                        THEN ReturnsR(r.w, txId, r.transfers,
                                      <<sender>> \o r.submitted, r.confirmed,
                                      r.calls)
                        ELSE Revert(w, r.err))
            ELSE ReturnsR(w2, txId, <<>>, <<sender>>, <<>>, <<>>)

\* submitTransaction that reads transactions.length after the push
submitTransaction_idAfterPush(w, t, sender, to, value, data, callee) ==
  IF ~w.isOwner[sender] THEN Revert(w, "caller is not an owner")
  ELSE IF ~(to # Null) THEN Revert(w, "invalid recipient")
  ELSE IF ~(value <= w.settings.transactionLimit)
    THEN Revert(w, "exceeds transaction limit")
  ELSE
    LET c == checkDailyLimit(w, t, sender, value)
    IN IF ~c.ok THEN Revert(w, c.err)
       ELSE
         LET w1 == [c.w EXCEPT !.transactions = Append(@,
                       [to |-> to, value |-> value, data |-> data,
                        executed |-> FALSE, confirmationCount |-> 0])]
             txId == Len(w1.transactions)
             w2 == Emit(w1, txId - 1, <<"TransactionCreated", to>>)
         IN IF sender = w2.aiAgent \/ w2.requiredConfirmations = 1
            THEN Then(confirmTransaction(w2, t, sender, txId - 1, callee),
                      LAMBDA r :
                        IF r.ok
                        THEN ReturnsR(r.w, txId, r.transfers,
                                      <<sender>> \o r.submitted, r.confirmed,
                                      r.calls)
                        ELSE Revert(w, r.err))
            ELSE ReturnsR(w2, txId, <<>>, <<sender>>, <<>>, <<>>)

\* submitTransaction that confirms only when one confirmation is required
submitTransaction_thresholdOneOnly(w, t, sender, to, value, data, callee) ==
  IF ~w.isOwner[sender] THEN Revert(w, "caller is not an owner")
  ELSE IF ~(to # Null) THEN Revert(w, "invalid recipient")
  ELSE IF ~(value <= w.settings.transactionLimit)
    THEN Revert(w, "exceeds transaction limit")
  ELSE
    LET c == checkDailyLimit(w, t, sender, value)
    IN IF ~c.ok THEN Revert(w, c.err)
       ELSE
         LET txId == Len(c.w.transactions)
             w1 == [c.w EXCEPT !.transactions = Append(@,
                       [to |-> to, value |-> value, data |-> data,
                        executed |-> FALSE, confirmationCount |-> 0])]
             w2 == Emit(w1, txId, <<"TransactionCreated", to>>)
         IN IF w2.requiredConfirmations = 1
            THEN Then(confirmTransaction(w2, t, sender, txId, callee),
                      LAMBDA r :
                        IF r.ok
                        THEN ReturnsR(r.w, txId, r.transfers,
                                      <<sender>> \o r.submitted, r.confirmed,
                                      r.calls)
                        ELSE Revert(w, r.err))
            ELSE ReturnsR(w2, txId, <<>>, <<sender>>, <<>>, <<>>)

\* submitTransaction that counts the value as spent when it is submitted
submitTransaction_reserves(w, t, sender, to, value, data, callee) ==
  IF ~w.isOwner[sender] THEN Revert(w, "caller is not an owner")
  ELSE IF ~(to # Null) THEN Revert(w, "invalid recipient")
  ELSE IF ~(value <= w.settings.transactionLimit)
    THEN Revert(w, "exceeds transaction limit")
  ELSE
    LET c == checkDailyLimit(w, t, sender, value)
    IN IF ~c.ok THEN Revert(w, c.err)
       ELSE
         LET txId == Len(c.w.transactions)
             w1 == [updateDailySpending(c.w, t, sender, value)
                      EXCEPT !.transactions = Append(@,
                       [to |-> to, value |-> value, data |-> data,
                        executed |-> FALSE, confirmationCount |-> 0])]
             w2 == Emit(w1, txId, <<"TransactionCreated", to>>)
         IN IF sender = w2.aiAgent \/ w2.requiredConfirmations = 1
            THEN Then(confirmTransaction(w2, t, sender, txId, callee),
                      LAMBDA r :
                        IF r.ok
                        THEN ReturnsR(r.w, txId, r.transfers,
                                      <<sender>> \o r.submitted, r.confirmed,
                                      r.calls)
                        ELSE Revert(w, r.err))
            ELSE ReturnsR(w2, txId, <<>>, <<sender>>, <<>>, <<>>)

\* the named return value txId is transactions.length before the push
submitTransaction(w, t, sender, to, value, data, callee) ==
  IF ~w.isOwner[sender] THEN Revert(w, "caller is not an owner")
  ELSE IF ~(to # Null) THEN Revert(w, "invalid recipient")
  ELSE IF ~(value <= w.settings.transactionLimit)
    THEN Revert(w, "exceeds transaction limit")
  ELSE
    LET c == checkDailyLimit(w, t, sender, value)
    IN IF ~c.ok THEN Revert(w, c.err)
       ELSE
         LET txId == Len(c.w.transactions)
             w1 == [c.w EXCEPT !.transactions = Append(@,
                       [to |-> to, value |-> value, data |-> data,
                        executed |-> FALSE, confirmationCount |-> 0])]
             w2 == Emit(w1, txId, <<"TransactionCreated", to>>)
         IN IF sender = w2.aiAgent \/ w2.requiredConfirmations = 1
            THEN Then(confirmTransaction(w2, t, sender, txId, callee),
                      LAMBDA r :
                        IF r.ok
                        THEN ReturnsR(r.w, txId, r.transfers,
                                      <<sender>> \o r.submitted, r.confirmed,
                                      r.calls)
                        ELSE Revert(w, r.err))
            ELSE ReturnsR(w2, txId, <<>>, <<sender>>, <<>>, <<>>)

(***************************************************************************)
(* The AI agent's direct path: the function writes nothing itself; the     *)
(* result of the external call is the return value.                        *)
(***************************************************************************)
\* executeAITransaction whose ceiling is settings.transactionLimit
executeAITransaction_settingsCeiling(w, t, sender, to, value, data, callee) ==
  IF ~(sender = w.aiAgent) THEN Revert(w, "caller is not AI agent")
  ELSE IF ~(value <= w.settings.transactionLimit)
    THEN Revert(w, "AI transaction limit exceeded")
  ELSE IF ~(to # Null) THEN Revert(w, "invalid recipient")
  ELSE Then(externalCall(w, t, to, value, data, callee),
            LAMBDA x : ReturnsR(x.w, x.ok, x.transfers, x.submitted, x.confirmed,
                           x.calls))

\* executeAITransaction with the require(success) of executeTransaction
executeAITransaction_requiresSuccess(w, t, sender, to, value, data, callee) ==
  IF ~(sender = w.aiAgent) THEN Revert(w, "caller is not AI agent")
  ELSE IF ~(value <= AI_LIMIT) THEN Revert(w, "AI transaction limit exceeded")
  ELSE IF ~(to # Null) THEN Revert(w, "invalid recipient")
  ELSE Then(externalCall(w, t, to, value, data, callee),
            LAMBDA x : IF ~x.ok THEN Revert(w, "transaction execution failed")
                       ELSE ReturnsR(x.w, x.ok, x.transfers, x.submitted, x.confirmed,
                           x.calls))

executeAITransaction(w, t, sender, to, value, data, callee) ==
  IF ~(sender = w.aiAgent) THEN Revert(w, "caller is not AI agent")
  ELSE IF ~(value <= AI_LIMIT) THEN Revert(w, "AI transaction limit exceeded")
  ELSE IF ~(to # Null) THEN Revert(w, "invalid recipient")
  ELSE Then(externalCall(w, t, to, value, data, callee),
            LAMBDA x : ReturnsR(x.w, x.ok, x.transfers, x.submitted, x.confirmed,
                           x.calls))

(***************************************************************************)
(* Wallet management.                                                      *)
(***************************************************************************)
\* updateSettings that leaves the recovery agent as it is
updateSettings_keepsAgent(w, sender, dailyLimit, transactionLimit, recoveryAgent) ==
  IF ~w.isOwner[sender] THEN Revert(w, "caller is not an owner")
  ELSE Return([w EXCEPT !.settings.dailyLimit = dailyLimit,
                        !.settings.transactionLimit = transactionLimit])

updateSettings(w, sender, dailyLimit, transactionLimit, recoveryAgent) ==
  IF ~w.isOwner[sender] THEN Revert(w, "caller is not an owner")
  ELSE Return([w EXCEPT !.settings.dailyLimit = dailyLimit,
                        !.settings.transactionLimit = transactionLimit,
                        !.settings.recoveryAgent = recoveryAgent])

\* addOwner without the test that the account is not yet an owner
addOwner_noDuplicateCheck(w, sender, newOwner) ==
  IF ~w.isOwner[sender] THEN Revert(w, "caller is not an owner")
  ELSE IF ~(newOwner # Null) THEN Revert(w, "invalid owner")
  ELSE Return([w EXCEPT !.isOwner[newOwner] = TRUE,
                        !.owners = Append(@, newOwner)])

addOwner(w, sender, newOwner) ==
  IF ~w.isOwner[sender] THEN Revert(w, "caller is not an owner")
  ELSE IF ~(newOwner # Null) THEN Revert(w, "invalid owner")
  ELSE IF ~(~w.isOwner[newOwner]) THEN Revert(w, "already an owner")
  ELSE Return([w EXCEPT !.isOwner[newOwner] = TRUE,
                        !.owners = Append(@, newOwner)])

\* the loop of removeOwner: the first entry equal to owner is overwritten
\* by the last entry and the array is popped
removeFromArray(os, owner) ==
  IF \E i \in 1..Len(os) : os[i] = owner
  THEN LET i == CHOOSE k \in 1..Len(os) :
                  os[k] = owner /\ \A j \in 1..(k - 1) : os[j] # owner
       IN SubSeq([os EXCEPT ![i] = os[Len(os)]], 1, Len(os) - 1)
  ELSE os

\* removeOwner that does not adjust requiredConfirmations
removeOwner_noClamp(w, sender, owner) ==
  IF ~w.isOwner[sender] THEN Revert(w, "caller is not an owner")
  ELSE IF ~w.isOwner[owner] THEN Revert(w, "not an owner")
  ELSE IF ~(Len(w.owners) > 1) THEN Revert(w, "cannot remove last owner")
  ELSE Return([w EXCEPT !.isOwner[owner] = FALSE,
                        !.owners = removeFromArray(@, owner)])

removeOwner(w, sender, owner) ==
  IF ~w.isOwner[sender] THEN Revert(w, "caller is not an owner")
  ELSE IF ~w.isOwner[owner] THEN Revert(w, "not an owner")
  ELSE IF ~(Len(w.owners) > 1) THEN Revert(w, "cannot remove last owner")
  ELSE
    LET w1 == [w EXCEPT !.isOwner[owner] = FALSE,
                        !.owners = removeFromArray(@, owner)]
    IN Return(IF w1.requiredConfirmations > Len(w1.owners)
              THEN [w1 EXCEPT !.requiredConfirmations = Len(w1.owners)]
              ELSE w1)

(***************************************************************************)
(* Recovery.                                                               *)
(***************************************************************************)
\* initiateRecovery that keeps the start time of a recovery already pending
initiateRecovery_keepsInitTime(w, t, sender, newOwner) ==
  IF ~(sender = w.settings.recoveryAgent \/ w.isOwner[sender])
    THEN Revert(w, "not authorized")
  ELSE IF ~(newOwner # Null) THEN Revert(w, "invalid new owner")
  ELSE Return([w EXCEPT !.pendingRecoveryOwner = newOwner,
                        !.recoveryInitTime =
                          IF w.pendingRecoveryOwner # Null THEN @ ELSE t])

initiateRecovery(w, t, sender, newOwner) ==
  IF ~(sender = w.settings.recoveryAgent \/ w.isOwner[sender])
    THEN Revert(w, "not authorized")
  ELSE IF ~(newOwner # Null) THEN Revert(w, "invalid new owner")
  ELSE Return([w EXCEPT !.pendingRecoveryOwner = newOwner,
                        !.recoveryInitTime = t])

\* completeRecovery that compares with > instead of >=
completeRecovery_strictDelay(w, t, sender) ==
  IF ~(w.pendingRecoveryOwner # Null) THEN Revert(w, "no pending recovery")
  ELSE IF ~(t > w.recoveryInitTime + RECOVERY_DELAY)
    THEN Revert(w, "recovery delay not passed")
  ELSE
    LET newOwner == w.pendingRecoveryOwner
    IN Return([w EXCEPT !.isOwner[newOwner] = TRUE,
                        !.owners = Append(@, newOwner),
                        !.pendingRecoveryOwner = Null,
                        !.recoveryInitTime = 0])

\* completeRecovery that does not reset the recovery state
completeRecovery_keepsPending(w, t, sender) ==
  IF ~(w.pendingRecoveryOwner # Null) THEN Revert(w, "no pending recovery")
  ELSE IF ~(t >= w.recoveryInitTime + RECOVERY_DELAY)
    THEN Revert(w, "recovery delay not passed")
  ELSE
    LET newOwner == w.pendingRecoveryOwner
    IN Return([w EXCEPT !.isOwner[newOwner] = TRUE,
                        !.owners = Append(@, newOwner)])

completeRecovery(w, t, sender) ==
  IF ~(w.pendingRecoveryOwner # Null) THEN Revert(w, "no pending recovery")
  ELSE IF ~(t >= w.recoveryInitTime + RECOVERY_DELAY)
    THEN Revert(w, "recovery delay not passed")
  ELSE
    LET newOwner == w.pendingRecoveryOwner
    IN Return([w EXCEPT !.isOwner[newOwner] = TRUE,
                        !.owners = Append(@, newOwner),
                        !.pendingRecoveryOwner = Null,
                        !.recoveryInitTime = 0])

\* cancelRecovery without the onlyOwner modifier
cancelRecovery_noOnlyOwner(w, sender) ==
  IF ~(w.pendingRecoveryOwner # Null)
    THEN Revert(w, "no pending recovery")
  ELSE Return([w EXCEPT !.pendingRecoveryOwner = Null,
                        !.recoveryInitTime = 0])

cancelRecovery(w, sender) ==
  IF ~w.isOwner[sender] THEN Revert(w, "caller is not an owner")
  ELSE IF ~(w.pendingRecoveryOwner # Null)
    THEN Revert(w, "no pending recovery")
  ELSE Return([w EXCEPT !.pendingRecoveryOwner = Null,
                        !.recoveryInitTime = 0])

emergencyPause(w, sender) ==
  IF ~(sender = w.aiAgent) THEN Revert(w, "caller is not AI agent")
  ELSE Return([w EXCEPT !.settings.isActive = FALSE])

resume(w, sender) ==
  IF ~(sender = w.aiAgent) THEN Revert(w, "caller is not AI agent")
  ELSE Return([w EXCEPT !.settings.isActive = TRUE])

(***************************************************************************)
(* Constructor.                                                            *)
(***************************************************************************)
ZeroStorage ==
  [owners |-> <<>>, isOwner |-> [a \in Address |-> FALSE],
   requiredConfirmations |-> 0, transactions |-> <<>>, isConfirmed |-> {},
   settings |-> [dailyLimit |-> 0, transactionLimit |-> 0,
                 recoveryAgent |-> Null, isActive |-> FALSE],
   aiAgent |-> Null,
   lastTransactionTime |-> [a \in Address |-> 0],
   dailySpent |-> [a \in Address |-> 0],
   pendingRecoveryOwner |-> Null, recoveryInitTime |-> 0, events |-> <<>>]

RECURSIVE pushOwners(_, _, _)
pushOwners(w, os, i) ==
  IF i > Len(os) THEN Return(w)
  ELSE IF ~(os[i] # Null) THEN Revert(w, "invalid owner")
  ELSE IF ~(~w.isOwner[os[i]]) THEN Revert(w, "owner not unique")
  ELSE pushOwners([w EXCEPT !.isOwner[os[i]] = TRUE,
                            !.owners = Append(@, os[i])], os, i + 1)

constructor(os, required, agent) ==
  IF ~(Len(os) > 0) THEN Revert(ZeroStorage, "owners required")
  ELSE IF ~(required > 0 /\ required <= Len(os))
    THEN Revert(ZeroStorage, "invalid number of required confirmations")
  ELSE
    LET p == pushOwners(ZeroStorage, os, 1)
    IN IF ~p.ok THEN Revert(ZeroStorage, p.err)
       ELSE Return([p.w EXCEPT
              !.requiredConfirmations = required,
              !.aiAgent = agent,
              !.settings = [dailyLimit |-> DefaultDailyLimit,
                            transactionLimit |-> DefaultTransactionLimit,
                            recoveryAgent |-> agent,
                            isActive |-> TRUE]])

(***************************************************************************)
(* SennaToken.  The storage is the record k: totalSupply, balanceOf,       *)
(* allowance (by <<owner, spender>>), owner and sennaWallet.  Amounts stay *)
(* far below 2^256, where the checked arithmetic of the compiler reverts.  *)
(***************************************************************************)
TokenDeployer == "A"

tokenConstructor(sender, initialSupply) ==
  Return([totalSupply |-> initialSupply,
          balanceOf |-> [a \in Holder |->
                           IF a = sender THEN initialSupply ELSE 0],
          allowance |-> [p \in Holder \X Holder |-> 0],
          owner |-> sender,
          sennaWallet |-> sender])

transfer(k, sender, to, value) ==
  IF ~(k.balanceOf[sender] >= value) THEN Revert(k, "insufficient balance")
  ELSE
    LET k1 == [k EXCEPT !.balanceOf[sender] = @ - value]
    IN Returns([k1 EXCEPT !.balanceOf[to] = @ + value], TRUE)

approve(k, sender, spender, value) ==
  Returns([k EXCEPT !.allowance[<<sender, spender>>] = value], TRUE)

transferFrom(k, sender, from, to, value) ==
  IF ~(k.balanceOf[from] >= value) THEN Revert(k, "insufficient balance")
  ELSE IF ~(k.allowance[<<from, sender>>] >= value)
    THEN Revert(k, "allowance exceeded")
  ELSE
    LET k1 == [k EXCEPT !.balanceOf[from] = @ - value]
        k2 == [k1 EXCEPT !.balanceOf[to] = @ + value]
    IN Returns([k2 EXCEPT !.allowance[<<from, sender>>] = @ - value], TRUE)

\* mint that the token owner may call as well
mint_ownerMayMint(k, sender, to, value) ==
  IF ~(sender = k.sennaWallet \/ sender = k.owner)
    THEN Revert(k, "caller is not SennaWallet")
  ELSE
    LET k1 == [k EXCEPT !.totalSupply = @ + value]
    IN Return([k1 EXCEPT !.balanceOf[to] = @ + value])

mint(k, sender, to, value) ==
  IF ~(sender = k.sennaWallet) THEN Revert(k, "caller is not SennaWallet")
  ELSE
    LET k1 == [k EXCEPT !.totalSupply = @ + value]
    IN Return([k1 EXCEPT !.balanceOf[to] = @ + value])

burn(k, sender, value) ==
  IF ~(k.balanceOf[sender] >= value) THEN Revert(k, "insufficient balance")
  ELSE
    LET k1 == [k EXCEPT !.balanceOf[sender] = @ - value]
    IN Return([k1 EXCEPT !.totalSupply = @ - value])

setSennaWallet(k, sender, sennaWallet) ==
  IF ~(sender = k.owner) THEN Revert(k, "caller is not owner")
  ELSE Return([k EXCEPT !.sennaWallet = sennaWallet])

\* the getters that the compiler makes for the public constants and state
\* variables of the token: they return and write nothing
Getters ==
  {"name", "symbol", "decimals", "totalSupply", "balanceOf", "allowance",
   "owner", "sennaWallet"}

\* a call of the token by sender with msg.value value: the function that
\* the calldata selects.  No function of the token is payable, and the token
\* has neither a receive nor a fallback function.
tokenCall(k, sender, value, data) ==
  IF ~(value = 0) THEN Revert(k, "function is not payable")
  ELSE CASE data.fn \in Getters -> Return(k)
         [] data.fn = "transfer" -> transfer(k, sender, data.to, data.value)
         [] data.fn = "approve" -> approve(k, sender, data.to, data.value)
         [] data.fn = "transferFrom" ->
              transferFrom(k, sender, data.from, data.to, data.value)
         [] data.fn = "mint" -> mint(k, sender, data.to, data.value)
         [] data.fn = "burn" -> burn(k, sender, data.value)
         [] data.fn = "setSennaWallet" -> setSennaWallet(k, sender, data.to)
         [] OTHER -> Revert(k, "no such function")

(***************************************************************************)
(* The low-level calls transaction.to.call{value}(data) of                 *)
(* executeTransaction and _to.call{value}(_data) of executeAITransaction.  *)
(* When the target is the token, the call runs the function of the token   *)
(* that the calldata selects, with msg.sender the wallet.  Any other       *)
(* target runs code of its own, which callee describes: callee.calls are   *)
(* the calls the target makes, in turn, before it returns, and callee.ok   *)
(* tells whether it then returns success.  A call back c is the call of an *)
(* external function of the wallet (c.op, with the arguments c.addr, c.x,  *)
(* c.y and c.data), or of the token (c.op = "token", with msg.value c.x    *)
(* and the calldata c.data), on the storage as it is at that point: with   *)
(* executed and the spending of the transfer in progress written.          *)
(* msg.sender of the call back is the target, or, when the target calls    *)
(* through another contract, that contract: c.sender.                      *)
(* c.callee describes the target of the external call that the call back   *)
(* makes in its turn.  A call back that reverts is undone and the target   *)
(* goes on; a target that returns failure undoes all that it has done.     *)
(* The wallet itself is never the target.                                  *)
(***************************************************************************)
\* a target that makes no call and returns ok: an account without code
\* returns TRUE unless the balance of the wallet is below the value
Plain(ok) == [ok |-> ok, calls |-> <<>>]
\* a target that makes the calls cs and returns success
Calling(cs) == [ok |-> TRUE, calls |-> cs]

CallBack(op, addr, x, y, data, callee) ==
  [op |-> op, addr |-> addr, x |-> x, y |-> y, data |-> data,
   callee |-> callee, sender |-> Null]

\* the call c made by the contract at sender, which the target has called
Via(c, sender) == [c EXCEPT !.sender = sender]

\* the call of the token with the calldata data and no value
TokenBack(data) == CallBack("token", Null, 0, 0, data, Plain(TRUE))

\* msg.sender of the call back c that the target makes
Caller(c, target) == IF c.sender = Null THEN target ELSE c.sender

callBack(w, t, target, c) ==
  CASE c.op = "submitTransaction" ->
         submitTransaction(w, t, Caller(c, target), c.addr, c.x, c.data,
                           c.callee)
    [] c.op = "confirmTransaction" ->
         confirmTransaction(w, t, Caller(c, target), c.x, c.callee)
    [] c.op = "executeTransaction" ->
         executeTransaction(w, t, Caller(c, target), c.x, c.callee)
    [] c.op = "executeAITransaction" ->
         executeAITransaction(w, t, Caller(c, target), c.addr, c.x, c.data,
                              c.callee)
    [] c.op = "updateSettings" ->
         updateSettings(w, Caller(c, target), c.x, c.y, c.addr)
    [] c.op = "addOwner" -> addOwner(w, Caller(c, target), c.addr)
    [] c.op = "removeOwner" -> removeOwner(w, Caller(c, target), c.addr)
    [] c.op = "initiateRecovery" ->
         initiateRecovery(w, t, Caller(c, target), c.addr)
    [] c.op = "completeRecovery" ->
         completeRecovery(w, t, Caller(c, target))
    [] c.op = "cancelRecovery" -> cancelRecovery(w, Caller(c, target))
    [] c.op = "emergencyPause" -> emergencyPause(w, Caller(c, target))
    [] c.op = "resume" -> resume(w, Caller(c, target))
    [] c.op = "token" ->
         LET k == tokenCall(w.token, Caller(c, target), c.x, c.data)
         IN IF k.ok THEN Return([w EXCEPT !.token = k.w])
            ELSE Revert(w, k.err)

\* the trace of the call c made by target that has returned n: the function
\* that ran and its msg.sender; txId is the transaction that the call
\* confirms or executes, or has created
Trace(c, target, n) ==
  IF ~n.ok THEN <<>>
  ELSE <<[op |-> IF c.op = "token" THEN c.data.fn ELSE c.op,
          sender |-> Caller(c, target),
          txId |-> IF c.op \in {"confirmTransaction", "executeTransaction"}
                   THEN c.x
                   ELSE IF c.op = "submitTransaction" THEN n.ret ELSE -1]>>

callBacks(w, t, target, cs) ==
  IF cs = <<>> THEN Return(w)
  ELSE
    Then(callBack(w, t, target, Head(cs)), LAMBDA n :
      Then(callBacks(n.w, t, target, Tail(cs)), LAMBDA rest :
        ReturnR(rest.w, n.transfers \o rest.transfers,
                n.submitted \o rest.submitted,
                n.confirmed \o rest.confirmed,
                n.calls \o Trace(Head(cs), target, n) \o rest.calls)))

\* ok is the success flag that the call yields.  The code at the token is
\* SennaToken, called by the wallet: the function that ran is put on the
\* trace.
externalCall(w, t, target, value, data, callee) ==
  IF target = TokenAddress
  THEN LET k == tokenCall(w.token, WalletAddress, value, data)
       IN IF k.ok
          THEN ReturnR([w EXCEPT !.token = k.w], <<>>, <<>>, <<>>,
                       <<[op |-> data.fn, sender |-> WalletAddress,
                          txId |-> -1]>>)
          ELSE Revert(w, k.err)
  ELSE IF ~callee.ok THEN Revert(w, "reverted by the target")
  ELSE callBacks(w, t, target, callee.calls)

(***************************************************************************)
(* Actions: one call of an external function by sender at block time now,  *)
(* with all that the targets of its transfers do before the call returns.  *)
(* last records the call and how it ended.                                 *)
(***************************************************************************)
Commit(r) ==
  /\ owners' = r.w.owners
  /\ isOwner' = r.w.isOwner
  /\ requiredConfirmations' = r.w.requiredConfirmations
  /\ transactions' = r.w.transactions
  /\ isConfirmed' = r.w.isConfirmed
  /\ settings' = r.w.settings
  /\ aiAgent' = r.w.aiAgent
  /\ lastTransactionTime' = r.w.lastTransactionTime
  /\ dailySpent' = r.w.dailySpent
  /\ pendingRecoveryOwner' = r.w.pendingRecoveryOwner
  /\ recoveryInitTime' = r.w.recoveryInitTime
  /\ events' = r.w.events
  /\ token' = r.w.token

\* the storage after the call is the one the function hands back: on a
\* revert that is the storage from before the outermost call
\* consumedAt keeps, for an account whose dailySpent the call has made
\* positive for the first time, the block.timestamp of the call
Call(op, sender, txId, addr, r, ret) ==
  /\ Commit(r)
  /\ last' = IF r.ok
             THEN [op |-> op, sender |-> sender, txId |-> txId,
                   addr |-> addr, ret |-> ret, transfers |-> r.transfers,
                   confirmed |-> r.confirmed, calls |-> r.calls]
             ELSE last
  /\ submitter' = submitter \o r.submitted
  /\ consumedAt' = IF dailySpent' = dailySpent
                    THEN consumedAt
                    ELSE [a \in DOMAIN consumedAt |->
                            IF consumedAt[a] = 0 /\ dailySpent'[a] > 0
                            THEN now ELSE consumedAt[a]]
  /\ UNCHANGED now

SubmitTransaction(sender, to, value, data, callee) ==
  LET r == submitTransaction(W, now, sender, to, value, data, callee)
  IN Call("submitTransaction", sender, IF r.ok THEN r.ret ELSE -1, to, r,
          TRUE)

ConfirmTransaction(sender, txId, callee) ==
  LET r == confirmTransaction(W, now, sender, txId, callee)
  IN Call("confirmTransaction", sender, txId, Null, r, TRUE)

ExecuteTransaction(sender, txId, callee) ==
  LET r == executeTransaction(W, now, sender, txId, callee)
  IN Call("executeTransaction", sender, txId, Null, r, TRUE)

ExecuteAITransaction(sender, to, value, data, callee) ==
  LET r == executeAITransaction(W, now, sender, to, value, data, callee)
  IN Call("executeAITransaction", sender, -1, to, r, r.ok /\ r.ret)

UpdateSettings(sender, dailyLimit, transactionLimit, recoveryAgent) ==
  LET r == updateSettings(W, sender, dailyLimit, transactionLimit,
                          recoveryAgent)
  IN Call("updateSettings", sender, -1, recoveryAgent, r, TRUE)

AddOwner(sender, newOwner) ==
  LET r == addOwner(W, sender, newOwner)
  IN Call("addOwner", sender, -1, newOwner, r, TRUE)

RemoveOwner(sender, owner) ==
  LET r == removeOwner(W, sender, owner)
  IN Call("removeOwner", sender, -1, owner, r, TRUE)

InitiateRecovery(sender, newOwner) ==
  LET r == initiateRecovery(W, now, sender, newOwner)
  IN Call("initiateRecovery", sender, -1, newOwner, r, TRUE)

CompleteRecovery(sender) ==
  LET r == completeRecovery(W, now, sender)
  IN Call("completeRecovery", sender, -1, pendingRecoveryOwner, r, TRUE)

CancelRecovery(sender) ==
  LET r == cancelRecovery(W, sender)
  IN Call("cancelRecovery", sender, -1, Null, r, TRUE)

EmergencyPause(sender) ==
  LET r == emergencyPause(W, sender)
  IN Call("emergencyPause", sender, -1, Null, r, TRUE)

Resume(sender) ==
  LET r == resume(W, sender)
  IN Call("resume", sender, -1, Null, r, TRUE)

\* block.timestamp grows between calls
AdvanceTime(d) ==
  /\ now' = now + d
  /\ last' = [op |-> "advanceTime", sender |-> Null, txId |-> -1,
              addr |-> Null, ret |-> TRUE, transfers |-> <<>>,
             confirmed |-> <<>>, calls |-> <<>>]
  /\ UNCHANGED <<owners, isOwner, requiredConfirmations, transactions,
                 isConfirmed, settings, aiAgent, lastTransactionTime,
                 dailySpent, pendingRecoveryOwner, recoveryInitTime, events,
                 submitter, consumedAt, token>>

(***************************************************************************)
(* Initial states: the storage left by a constructor call that succeeds.   *)
(***************************************************************************)
Deployed(ownerLists, agents) ==
  /\ \E os \in ownerLists, required \in 1..MaxOwners, agent \in agents :
       LET r == constructor(os, required, agent)
       IN /\ r.ok
          /\ owners = r.w.owners
          /\ isOwner = r.w.isOwner
          /\ requiredConfirmations = r.w.requiredConfirmations
          /\ transactions = r.w.transactions
          /\ isConfirmed = r.w.isConfirmed
          /\ settings = r.w.settings
          /\ aiAgent = r.w.aiAgent
          /\ lastTransactionTime = r.w.lastTransactionTime
          /\ dailySpent = r.w.dailySpent
          /\ pendingRecoveryOwner = r.w.pendingRecoveryOwner
          /\ recoveryInitTime = r.w.recoveryInitTime
          /\ events = r.w.events
  /\ now = StartTime
  /\ last = [op |-> "constructor", sender |-> Null, txId |-> -1,
             addr |-> Null, ret |-> TRUE, transfers |-> <<>>,
             confirmed |-> <<>>, calls |-> <<>>]
  /\ submitter = <<>>
  /\ consumedAt = [a \in Address |-> 0]
  /\ token = tokenConstructor(TokenDeployer, InitialSupply).w

\* the part of the behaviours that is explored: at most maxTx transactions,
\* maxOwners entries in owners and maxElapsed seconds after deployment
\* a wallet that holds maxTx transactions takes no further submitTransaction
Room(maxTx) == Len(transactions) < maxTx

Within(maxTx, maxOwners, maxElapsed) ==
  /\ Len(transactions') <= maxTx
  /\ Len(owners') <= maxOwners
  /\ now' <= StartTime + maxElapsed

Values == {DefaultTransactionLimit, DefaultTransactionLimit + 10}
\* the targets that make no call: they return success or failure
Plains == {Plain(ok) : ok \in BOOLEAN}
\* what a target does with the control that a transfer hands to it: one call
\* of every external function of the wallet, the transfer of a transaction
\* submitted in the call going to a target that makes no call
CallBacks ==
  {CallBack("submitTransaction", "C", DefaultTransactionLimit, 0, NoData,
            Plain(TRUE)),
   CallBack("confirmTransaction", Null, 0, 0, NoData, Plain(TRUE)),
   CallBack("executeTransaction", Null, 0, 0, NoData, Plain(TRUE)),
   CallBack("executeAITransaction", "C", AI_LIMIT, 0, NoData, Plain(TRUE)),
   CallBack("updateSettings", "B", DefaultTransactionLimit,
            DefaultTransactionLimit, NoData, Plain(TRUE)),
   CallBack("addOwner", "C", 0, 0, NoData, Plain(TRUE)),
   CallBack("removeOwner", "B", 0, 0, NoData, Plain(TRUE)),
   CallBack("initiateRecovery", "C", 0, 0, NoData, Plain(TRUE)),
   CallBack("completeRecovery", Null, 0, 0, NoData, Plain(TRUE)),
   CallBack("cancelRecovery", Null, 0, 0, NoData, Plain(TRUE)),
   CallBack("emergencyPause", Null, 0, 0, NoData, Plain(TRUE)),
   CallBack("resume", Null, 0, 0, NoData, Plain(TRUE))}
\* the targets that make no call, and those that make one of the calls ops.
\* Every specification takes the targets and the call backs that act on the
\* state its claims are about; the functions take any callee.  Calls that
\* revert in every state of a specification (a txId beyond its bound, the
\* null address as recipient) are stuttering steps and are left out of its
\* steps.
CalleesOf(ops) ==
  Plains \cup {Calling(<<c>>) : c \in {b \in CallBacks : b.op \in ops}}

(***************************************************************************)
(* Specification of the ledger: owners A and B, any threshold, the AI      *)
(* agent is owner A or the outsider C; settings stay as constructed.       *)
(***************************************************************************)
InitLedger == Deployed({<<"A", "B">>}, {"A", "C"})

WithinLedger == Within(MaxTx, MaxOwners, MaxDays * DAY)

\* the transfers go to owner B, which may submit a transaction or confirm
\* transaction 0 before it returns
TargetsLedger == {"B"}
CalleesLedger == CalleesOf({"submitTransaction", "confirmTransaction"})

NextLedger ==
  \/ \E sender \in Account, to \in TargetsLedger, callee \in CalleesLedger :
       /\ Room(MaxTx)
       /\ SubmitTransaction(sender, to, DefaultTransactionLimit, NoData,
                            callee)
       /\ WithinLedger
  \/ \E sender \in Account, txId \in 0..(MaxTx - 1),
        callee \in CalleesLedger :
       ConfirmTransaction(sender, txId, callee) /\ WithinLedger
  \/ \E sender \in Account, txId \in 0..(MaxTx - 1),
        callee \in CalleesLedger :
       ExecuteTransaction(sender, txId, callee) /\ WithinLedger
  \/ AdvanceTime(DAY) /\ WithinLedger

SpecLedger == InitLedger /\ [][NextLedger]_vars

(***************************************************************************)
(* Specification of the daily limit: the ledger as above, with room for    *)
(* three transactions of transactionLimit, which together exceed           *)
(* dailyLimit.                                                             *)
(***************************************************************************)
WithinLimit == Within(MaxTxLimit, MaxOwners, MaxDays * DAY)

\* the transfers go to owner B, which may submit a transaction of its own
\* before it returns: its value is added to dailySpent[B] inside the call
TargetsLimit == {"B"}
CalleesLimit == CalleesOf({"submitTransaction"})

NextLimit ==
  \/ \E sender \in Account, to \in TargetsLimit, callee \in CalleesLimit :
       /\ Room(MaxTxLimit)
       /\ SubmitTransaction(sender, to, DefaultTransactionLimit, NoData,
                            callee)
       /\ WithinLimit
  \/ \E sender \in Account, txId \in 0..(MaxTxLimit - 1),
        callee \in CalleesLimit :
       ConfirmTransaction(sender, txId, callee) /\ WithinLimit
  \/ \E sender \in Account, txId \in 0..(MaxTxLimit - 1),
        callee \in CalleesLimit :
       ExecuteTransaction(sender, txId, callee) /\ WithinLimit
  \/ AdvanceTime(DAY) /\ WithinLimit

SpecLimit == InitLedger /\ [][NextLimit]_vars

(***************************************************************************)
(* Specification of the owner registry and the recovery.                   *)
(***************************************************************************)
InitOwners == Deployed({<<"A">>, <<"A", "B">>}, {"C"})

WithinOwners == Within(0, MaxOwners, MaxDelays * RECOVERY_DELAY)

NextOwners ==
  \/ \E sender \in Account, newOwner \in Address :
       AddOwner(sender, newOwner) /\ WithinOwners
  \/ \E sender \in Account, owner \in Address :
       RemoveOwner(sender, owner) /\ WithinOwners
  \/ \E sender \in Account, newOwner \in Address :
       InitiateRecovery(sender, newOwner) /\ WithinOwners
  \/ \E sender \in Account : CompleteRecovery(sender) /\ WithinOwners
  \/ \E sender \in Account : CancelRecovery(sender) /\ WithinOwners
  \/ AdvanceTime(RECOVERY_DELAY) /\ WithinOwners

SpecOwners == InitOwners /\ [][NextOwners]_vars

(***************************************************************************)
(* Specification of the ledger under a changing owner registry.            *)
(***************************************************************************)
Init == Deployed({<<"A", "B">>}, {"C"})

WithinWallet == Within(MaxTxWallet, MaxOwners, 0)

\* the transfers go to C, which may remove owner B before it returns: the
\* call takes effect when C has been added to the owners
TargetsWallet == {"C"}
CalleesWallet == CalleesOf({"removeOwner"})

Next ==
  \/ \E sender \in Account, to \in TargetsWallet, callee \in CalleesWallet :
       /\ Room(MaxTxWallet)
       /\ SubmitTransaction(sender, to, DefaultTransactionLimit, NoData,
                            callee)
       /\ WithinWallet
  \/ \E sender \in Account, txId \in 0..(MaxTxWallet - 1),
        callee \in CalleesWallet :
       ConfirmTransaction(sender, txId, callee) /\ WithinWallet
  \/ \E sender \in Account, txId \in 0..(MaxTxWallet - 1),
        callee \in CalleesWallet :
       ExecuteTransaction(sender, txId, callee) /\ WithinWallet
  \/ \E sender \in Account, newOwner \in Address :
       AddOwner(sender, newOwner) /\ WithinWallet
  \/ \E sender \in Account, owner \in Address :
       RemoveOwner(sender, owner) /\ WithinWallet

Spec == Init /\ [][Next]_vars

(***************************************************************************)
(* Specification of the spending window: the ledger with settings that     *)
(* owners change.  block.timestamp moves to the instants one second before *)
(* and exactly at every whole day after deployment.  The wallet has owner  *)
(* A, or owners A and B with threshold 1 or 2.  While the owners stay as   *)
(* constructed every transaction that reaches the threshold is executed by *)
(* the cascade of confirmTransaction, and a direct executeTransaction      *)
(* never gets past its requires: it is not among the steps.                *)
(***************************************************************************)
AdvanceTo(instants) ==
  \E t \in instants : t > now /\ AdvanceTime(t - now)

WindowInstants ==
  {StartTime + k * DAY - j : k \in 1..MaxDaysWindow, j \in {0, 1}}

\* <<dailyLimit, transactionLimit>>: the limits of the constructor, and a
\* transactionLimit of 6 ether with a dailyLimit of 6 ether and of 5 ether
Limits ==
  {<<DefaultDailyLimit, DefaultTransactionLimit>>,
   <<DefaultTransactionLimit + 10, DefaultTransactionLimit + 10>>,
   <<DefaultTransactionLimit, DefaultTransactionLimit + 10>>}

\* a transaction of a wallet with threshold 2 passes through the
\* confirmations of both owners: such a wallet is explored with one
\* transaction fewer than a wallet with threshold 1
WithinWindow ==
  Within(MaxTxWindow - (requiredConfirmations - 1), MaxOwners,
         MaxDaysWindow * DAY)

\* the transfers go to owner B, which may submit a transaction of its own
\* before it returns
TargetsWindow == {"B"}
CalleesWindow == CalleesOf({"submitTransaction"})

NextWindow ==
  \/ \E sender \in Account, to \in TargetsWindow, value \in Values,
        callee \in CalleesWindow :
       /\ Room(MaxTxWindow - (requiredConfirmations - 1))
       /\ SubmitTransaction(sender, to, value, NoData, callee)
       /\ WithinWindow
  \/ \E sender \in Account, txId \in 0..(MaxTxWindow - 1),
        callee \in CalleesWindow :
       ConfirmTransaction(sender, txId, callee) /\ WithinWindow
  \/ \E sender \in Account, limits \in Limits :
       UpdateSettings(sender, limits[1], limits[2],
                      settings.recoveryAgent) /\ WithinWindow
  \/ AdvanceTo(WindowInstants) /\ WithinWindow

SpecWindow == InitOwners /\ [][NextWindow]_vars

(***************************************************************************)
(* Specification of the recovery delay: owners A and B, the recovery agent *)
(* C.  block.timestamp moves to the instants one day before, one second    *)
(* before, exactly at and one second after every whole recovery delay      *)
(* after deployment.                                                       *)
(***************************************************************************)
RecoveryInstants ==
  {StartTime + k * RECOVERY_DELAY + j :
     k \in 0..MaxDelaysRecovery, j \in {0 - DAY, 0 - 1, 0, 1}}

WithinRecovery ==
  Within(0, MaxOwners, MaxDelaysRecovery * RECOVERY_DELAY + 1)

NextRecovery ==
  \/ \E sender \in Account, newOwner \in Address :
       InitiateRecovery(sender, newOwner) /\ WithinRecovery
  \/ \E sender \in Account : CompleteRecovery(sender) /\ WithinRecovery
  \/ \E sender \in Account : CancelRecovery(sender) /\ WithinRecovery
  \/ AdvanceTo(RecoveryInstants) /\ WithinRecovery

SpecRecovery == Init /\ [][NextRecovery]_vars

(***************************************************************************)
(* Specification of the AI agent's direct path: owners A and B, the AI     *)
(* agent is owner A or the outsider C; owners change the limits, the agent *)
(* pauses and resumes the wallet.                                          *)
(***************************************************************************)
AIValues == {0, AI_LIMIT, AI_LIMIT + 1}

WithinAgent == Within(0, MaxOwners, 0)

\* the agent sends to owner B and to C, which may make any one call of
\* CallBacks before they return, or two of them in a row, or call the
\* contract at owner A, which adds or removes an owner
TargetsAgent == {"B", "C"}
CalleesAgent ==
  CalleesOf({c.op : c \in CallBacks})
    \cup {Calling(<<c1, c2>>) :
            c1, c2 \in {c \in CallBacks :
                          c.op \in {"removeOwner", "updateSettings",
                                    "emergencyPause"}}}
    \cup {Calling(<<Via(c, "A")>>) :
            c \in {b \in CallBacks : b.op \in {"addOwner", "removeOwner"}}}

NextAgent ==
  \/ \E sender \in Account, to \in TargetsAgent, value \in AIValues,
        callee \in CalleesAgent :
       ExecuteAITransaction(sender, to, value, NoData, callee) /\ WithinAgent
  \/ \E sender \in Account, dailyLimit \in {0, DefaultDailyLimit},
        transactionLimit \in {0, DefaultTransactionLimit} :
       UpdateSettings(sender, dailyLimit, transactionLimit,
                      settings.recoveryAgent) /\ WithinAgent
  \/ \E sender \in Account : EmergencyPause(sender) /\ WithinAgent
  \/ \E sender \in Account : Resume(sender) /\ WithinAgent

SpecAgent == InitLedger /\ [][NextAgent]_vars

(***************************************************************************)
(* Specification of the owner-only functions: owners A and B, the AI agent *)
(* and recovery agent C; the owners, the recovery agent and the pending    *)
(* recovery change.  confirmTransaction is reached through the cascade of  *)
(* submitTransaction.                                                      *)
(***************************************************************************)
WithinAccess == Within(MaxTxAccess, MaxOwners, 0)

\* the transfers go to C, the recovery agent, which may add itself to the
\* owners, remove owner B or initiate the recovery before it returns
CalleesAccess ==
  CalleesOf({"addOwner", "removeOwner", "initiateRecovery"})

NextAccess ==
  \/ \E sender \in Account, callee \in CalleesAccess :
       /\ Room(MaxTxAccess)
       /\ SubmitTransaction(sender, "C", DefaultTransactionLimit, NoData,
                            callee)
       /\ WithinAccess
  \/ \E sender \in Account, txId \in 0..(MaxTxAccess - 1),
        callee \in CalleesAccess :
       ExecuteTransaction(sender, txId, callee) /\ WithinAccess
  \/ \E sender \in Account, recoveryAgent \in {"B", "C"} :
       UpdateSettings(sender, settings.dailyLimit, settings.transactionLimit,
                      recoveryAgent) /\ WithinAccess
  \/ \E sender \in Account, newOwner \in Address :
       AddOwner(sender, newOwner) /\ WithinAccess
  \/ \E sender \in Account, owner \in Address :
       RemoveOwner(sender, owner) /\ WithinAccess
  \/ \E sender \in Account, newOwner \in Address :
       InitiateRecovery(sender, newOwner) /\ WithinAccess
  \/ \E sender \in Account : CancelRecovery(sender) /\ WithinAccess

SpecAccess == Init /\ [][NextAccess]_vars

(***************************************************************************)
(* The automation agent next to the ledger: transactions are submitted,    *)
(* confirmed and executed, which fills dailySpent, the limits are changed, *)
(* and the agent, an owner or not, calls executeAITransaction.             *)
(***************************************************************************)
WithinAutomated == Within(MaxTxAutomated, MaxOwners, 0)

\* the transfers go to owner B and to C, which may submit a transaction,
\* change the limits or remove owner B before they return
TargetsAutomated == {"B", "C"}
CalleesAutomated ==
  CalleesOf({"submitTransaction", "updateSettings", "removeOwner"})

NextAutomated ==
  \/ \E sender \in Account, to \in TargetsAutomated, value \in Values,
        callee \in CalleesAutomated :
       /\ Room(MaxTxAutomated)
       /\ SubmitTransaction(sender, to, value, NoData, callee)
       /\ WithinAutomated
  \/ \E sender \in Account, txId \in 0..(MaxTxAutomated - 1),
        callee \in CalleesAutomated :
       ConfirmTransaction(sender, txId, callee) /\ WithinAutomated
  \/ \E sender \in Account, limits \in Limits :
       UpdateSettings(sender, limits[1], limits[2], settings.recoveryAgent)
         /\ WithinAutomated
  \/ \E sender \in Account, to \in TargetsAutomated, value \in AIValues,
        callee \in CalleesAutomated :
       ExecuteAITransaction(sender, to, value, NoData, callee)
         /\ WithinAutomated

SpecAutomated == InitLedger /\ [][NextAutomated]_vars

(***************************************************************************)
(* The ledger with targets that call back: the targets are the owners A    *)
(* and B, every transfer hands control to its target, and the target       *)
(* submits, confirms, executes or removes an owner before it returns: one  *)
(* call, whose own transfer may reach a target that calls back in its      *)
(* turn, down to MaxReentry transfers inside the first, or two calls in a  *)
(* row.  A target that returns failure undoes its calls with the rest of   *)
(* the call, so that the failing target without a call stands for all.     *)
(* removeOwner lowers the threshold under the confirmations of a pending   *)
(* transaction, which opens executeTransaction to a direct call.           *)
(***************************************************************************)
Reentrants == {"A", "B"}

\* the call backs whose own transfers go to the targets callees
CallbacksTo(callees) ==
  {CallBack("submitTransaction", to, DefaultTransactionLimit, 0, NoData,
            callee) : to \in Reentrants, callee \in callees}
  \cup {CallBack(op, Null, txId, 0, NoData, callee) :
          op \in {"confirmTransaction", "executeTransaction"},
          txId \in 0..(MaxTxReentrant - 1), callee \in callees}
  \cup {CallBack("removeOwner", owner, 0, 0, NoData, Plain(TRUE)) :
          owner \in Reentrants}

RECURSIVE CalleesOfDepth(_)
CalleesOfDepth(d) ==
  IF d = 0 THEN {Plain(TRUE)}
  ELSE {Plain(TRUE)}
         \cup {Calling(<<c>>) : c \in CallbacksTo(CalleesOfDepth(d - 1))}

CalleesReentrant ==
  Plains \cup CalleesOfDepth(MaxReentry)
    \cup {Calling(<<c1, c2>>) : c1, c2 \in CallbacksTo({Plain(TRUE)})}

WithinReentrant ==
  Within(MaxTxReentrant - (requiredConfirmations - 1), MaxOwners, 0)

NextReentrant ==
  \/ \E sender \in Reentrants, callee \in CalleesReentrant :
       /\ Room(MaxTxReentrant - (requiredConfirmations - 1))
       /\ SubmitTransaction(sender, "B", DefaultTransactionLimit, NoData,
                            callee)
       /\ WithinReentrant
  \/ \E sender \in Reentrants, txId \in 0..(MaxTxReentrant - 1),
        callee \in CalleesReentrant :
       ConfirmTransaction(sender, txId, callee) /\ WithinReentrant
  \/ \E sender \in Reentrants, txId \in 0..(MaxTxReentrant - 1),
        callee \in CalleesReentrant :
       ExecuteTransaction(sender, txId, callee) /\ WithinReentrant
  \/ \E sender \in Account, owner \in Address :
       RemoveOwner(sender, owner) /\ WithinReentrant

SpecReentrant == Init /\ [][NextReentrant]_vars

(***************************************************************************)
(* The token ledger: one call of an external function of SennaToken by     *)
(* sender, which leaves the wallet storage as it is, or a call of the      *)
(* wallet whose transfer goes to the token with the calldata of a mint or  *)
(* of a getter, or to the token deployer A or to B, which call the token   *)
(* themselves before they return.                                          *)
(* The token owner puts an account or the wallet into the sennaWallet      *)
(* slot.  Tokens are minted to B and to the null address, sent to C, and   *)
(* the deployer alone gives an allowance, to B.                            *)
(***************************************************************************)
TokenCall(op, sender, addr, r, ret) ==
  /\ token' = r.w
  /\ last' = IF r.ok
             THEN [op |-> op, sender |-> sender, txId |-> -1,
                   addr |-> addr, ret |-> ret, transfers |-> <<>>,
                   confirmed |-> <<>>, calls |-> <<>>]
             ELSE last
  /\ UNCHANGED <<owners, isOwner, requiredConfirmations, transactions,
                 isConfirmed, settings, aiAgent, lastTransactionTime,
                 dailySpent, pendingRecoveryOwner, recoveryInitTime, events,
                 now, submitter, consumedAt>>

Transfer(sender, to, value) ==
  TokenCall("transfer", sender, to, transfer(token, sender, to, value), value)

Approve(sender, spender, value) ==
  TokenCall("approve", sender, spender,
            approve(token, sender, spender, value), value)

TransferFrom(sender, from, to, value) ==
  TokenCall("transferFrom", sender, to,
            transferFrom(token, sender, from, to, value), value)

Mint(sender, to, value) ==
  TokenCall("mint", sender, to, mint(token, sender, to, value), value)

Burn(sender, value) ==
  TokenCall("burn", sender, Null, burn(token, sender, value), value)

SetSennaWallet(sender, sennaWallet) ==
  TokenCall("setSennaWallet", sender, sennaWallet,
            setSennaWallet(token, sender, sennaWallet), TRUE)

TokenAmounts == 0..MaxSupply

WithinToken ==
  /\ token'.totalSupply <= MaxSupply
  /\ Len(transactions') <= MaxTxToken

\* mint(B, value) as the calldata of a transfer
MintData == {Calldata("mint", Null, "B", MaxSupply - InitialSupply)}
\* the calldata that the wallet sends to the token: a mint, and the getter
\* totalSupply()
TokenData == MintData \cup {Calldata("totalSupply", Null, Null, 0)}
\* the targets that call the token themselves before they return: they burn
\* a token or mint one to B
CalleesToken ==
  {Calling(<<TokenBack(data)>>) :
     data \in MintData \cup {Calldata("burn", Null, Null, InitialSupply)}}

NextToken ==
  \/ \E sender \in Account, to \in {"B", Null}, value \in TokenAmounts :
       Mint(sender, to, value) /\ WithinToken
  \/ \E sender \in Account, sennaWallet \in {"B", WalletAddress, Null} :
       SetSennaWallet(sender, sennaWallet) /\ WithinToken
  \/ \E sender \in Account, value \in TokenAmounts :
       Transfer(sender, "C", value) /\ WithinToken
  \/ \E value \in {0, InitialSupply} :
       Approve(TokenDeployer, "B", value) /\ WithinToken
  \/ \E value \in TokenAmounts :
       TransferFrom("B", TokenDeployer, "C", value) /\ WithinToken
  \/ \E sender \in Account, value \in TokenAmounts :
       Burn(sender, value) /\ WithinToken
  \/ \E data \in TokenData :
       /\ Room(MaxTxToken)
       /\ SubmitTransaction("A", TokenAddress, 0, data, Plain(TRUE))
       /\ WithinToken
  \/ \E txId \in 0..(MaxTxToken - 1) :
       ConfirmTransaction("B", txId, Plain(TRUE)) /\ WithinToken
  \/ \E value \in {0, AI_LIMIT}, data \in TokenData :
       ExecuteAITransaction(aiAgent, TokenAddress, value, data, Plain(TRUE))
         /\ WithinToken
  \/ \E to \in {"A", "B"}, callee \in CalleesToken :
       ExecuteAITransaction(aiAgent, to, AI_LIMIT, NoData, callee)
         /\ WithinToken

SpecToken == Init /\ [][NextToken]_vars

(***************************************************************************)
(* What ran in the last call: the function that was called, and those     *)
(* that the targets of its transfers called before they returned.          *)
(***************************************************************************)
\* <<txId, sender>> of the confirmTransaction calls that ran in the call l:
\* called directly, by a target, or by a submitTransaction whose sender is
\* the AI agent or whose wallet has the threshold 1
Confirmed(l) == {l.confirmed[i] : i \in DOMAIN l.confirmed}

\* the number of calls of op that the targets made in the call l
Calls(l, op) == Cardinality({i \in DOMAIN l.calls : l.calls[i].op = op})

(***************************************************************************)
(* The failure kinds of the specification and the revert strings that      *)
(* belong to them.                                                         *)
(***************************************************************************)
AuthorizationError ==
  {"caller is not an owner", "caller is not AI agent", "not authorized"}
StateError ==
  {"transaction does not exist", "transaction already executed",
   "transaction already confirmed", "not an owner",
   "cannot remove last owner"}
LimitExceeded ==
  {"exceeds transaction limit", "exceeds daily limit", "cannot execute tx",
   "AI transaction limit exceeded"}
ExecutionFailure == {"transaction execution failed"}
RecoveryTimingError == {"no pending recovery", "recovery delay not passed"}
ValidationError ==
  {"invalid recipient", "invalid owner", "already an owner",
   "invalid new owner"}

TxIds == 0..(Len(transactions) - 1)

\* a call that failed and left the storage as it was
Failed(r) == ~r.ok /\ r.w = W

(***************************************************************************)
(* C1: quorum is never bypassed.  In every step in which a transaction     *)
(* becomes executed, by a direct executeTransaction or by the cascade of   *)
(* confirmTransaction or submitTransaction, its confirmationCount is at    *)
(* least requiredConfirmations; and in every reachable state a direct      *)
(* executeTransaction of a transaction with fewer confirmations fails,     *)
(* for an owner with "cannot execute tx", and changes nothing.             *)
(***************************************************************************)
BecomesExecuted(i) ==
  /\ i <= Len(transactions')
  /\ transactions'[i].executed
  /\ (i > Len(transactions) \/ ~transactions[i].executed)

C1_ExecutedOnlyWithQuorum ==
  \A i \in 1..Len(transactions') :
    BecomesExecuted(i) =>
      transactions'[i].confirmationCount >= requiredConfirmations'

C1_DirectExecuteNeedsQuorum ==
  \A txId \in TxIds, sender \in Account, callee \in CalleesWallet :
    Tx(W, txId).confirmationCount < requiredConfirmations =>
      LET r == executeTransaction(W, now, sender, txId, callee)
      IN /\ Failed(r)
         /\ (isOwner[sender] /\ ~Tx(W, txId).executed)
              => r.err = "cannot execute tx"

C1_QuorumNeverBypassed ==
  [](C1_DirectExecuteNeedsQuorum) /\ [][C1_ExecutedOnlyWithQuorum]_vars

\* a direct executeTransaction has executed a transaction (after removeOwner
\* lowered the threshold to the confirmations the transaction already had)
C1_Witness ==
  /\ last.op = "executeTransaction"
  /\ Tx(W, last.txId).executed
  /\ Tx(W, last.txId).confirmationCount >= requiredConfirmations

(***************************************************************************)
(* C2: executed is write-once.  A transaction that is executed stays       *)
(* executed in every later state, and every later executeTransaction or    *)
(* confirmTransaction of it fails and leaves the storage unchanged; for a  *)
(* caller that is an owner the error is the StateError "transaction        *)
(* already executed".                                                      *)
(***************************************************************************)
C2_ExecutedStays ==
  \A i \in 1..Len(transactions) :
    transactions[i].executed =>
      i <= Len(transactions') /\ transactions'[i].executed

C2_ExecutedRejects ==
  \A txId \in TxIds, sender \in Account, callee \in CalleesWallet :
    Tx(W, txId).executed =>
      LET e == executeTransaction(W, now, sender, txId, callee)
          c == confirmTransaction(W, now, sender, txId, callee)
      IN /\ Failed(e) /\ Failed(c)
         /\ isOwner[sender] =>
              /\ e.err = "transaction already executed"
              /\ c.err = "transaction already executed"
              /\ e.err \in StateError

C2_ExecutedWriteOnce ==
  [](C2_ExecutedRejects) /\ [][C2_ExecutedStays]_vars

\* a state later than an execution: transaction 0 is executed and another
\* call has succeeded since
C2_Witness ==
  /\ Len(transactions) >= 1
  /\ transactions[1].executed
  /\ last.op \in {"removeOwner", "addOwner"}
  /\ \E sender \in Account : isOwner[sender]

(***************************************************************************)
(* C3: no (txId, owner) pair confirms twice.  Once owner o has confirmed   *)
(* transaction t, every further confirmTransaction of t by o fails and     *)
(* leaves confirmationCount and the confirmation record unchanged; while o *)
(* is an owner and t is pending the error is the StateError "transaction   *)
(* already confirmed".                                                     *)
(***************************************************************************)
C3_NoDoubleConfirm ==
  \A txId \in TxIds, o \in Account, callee \in CalleesWallet :
    <<txId, o>> \in isConfirmed =>
      LET r == confirmTransaction(W, now, o, txId, callee)
      IN /\ ~r.ok
         /\ r.w.isConfirmed = isConfirmed
         /\ r.w.transactions = transactions
         /\ r.w = W
         /\ r.err \in StateError \cup AuthorizationError
         /\ (isOwner[o] /\ ~Tx(W, txId).executed)
              => r.err = "transaction already confirmed"

\* an owner has confirmed a transaction that is still pending
C3_Witness ==
  \E txId \in TxIds, o \in Account :
    /\ <<txId, o>> \in isConfirmed
    /\ isOwner[o]
    /\ ~Tx(W, txId).executed
    /\ last.op = "confirmTransaction" /\ last.sender = o /\ last.txId = txId

(***************************************************************************)
(* C4: no limit bypass on the quorum path.  With the settings as           *)
(* constructed, dailySpent of every account is at most dailyLimit in every *)
(* reachable state.                                                        *)
(***************************************************************************)
C4_NoLimitBypass ==
  \A o \in Account : dailySpent[o] <= settings.dailyLimit

(***************************************************************************)
(* C5: in the step in which a transaction becomes executed, its value is   *)
(* added to dailySpent of the account that submitted it (after the window  *)
(* reset of a submitTransaction that cascades), and dailySpent of every    *)
(* other account is unchanged, whoever the caller is.                      *)
(***************************************************************************)
C5_ChargedToSubmitter ==
  \A i \in 1..Len(transactions') :
    BecomesExecuted(i) =>
      LET s == submitter'[i]
          base == IF i > Len(transactions) /\ now >= lastTransactionTime[s] + DAY
                  THEN 0 ELSE dailySpent[s]
      IN /\ dailySpent'[s] = base + transactions'[i].value
         /\ \A o \in Account \ {s} : dailySpent'[o] = dailySpent[o]

C5_SpendingOfSubmitter == [][C5_ChargedToSubmitter]_vars

(***************************************************************************)
(* C6 as stated: with two owners and threshold 2, after an owner submits a *)
(* transaction it is pending with confirmationCount 1, and when the other  *)
(* owner then confirms it the transaction is executed.                     *)
(***************************************************************************)
TwoOfTwo == Len(owners) = 2 /\ requiredConfirmations = 2

C6_SubmitCountsOne ==
  /\ (TwoOfTwo /\ last.op = "submitTransaction") =>
       /\ ~Tx(W, last.txId).executed
       /\ Tx(W, last.txId).confirmationCount = 1
  /\ (TwoOfTwo /\ last.op = "confirmTransaction"
        /\ last.sender # submitter[last.txId + 1]) =>
       Tx(W, last.txId).executed

(***************************************************************************)
(* C6 amended: with two owners and threshold 2, after an owner submits a   *)
(* transaction it is pending with confirmationCount 0, or 1 when the       *)
(* submitter is the AI agent; after a confirmTransaction that succeeds the *)
(* transaction is executed exactly when both owners have confirmed, so the *)
(* second confirmation executes it without a further call.                 *)
(***************************************************************************)
ConfirmersOf(txId) == {o \in Account : <<txId, o>> \in isConfirmed}

C6_SubmitThenSecondConfirmExecutes ==
  /\ (TwoOfTwo /\ last.op = "submitTransaction") =>
       /\ ~Tx(W, last.txId).executed
       /\ Tx(W, last.txId).confirmationCount
            = (IF last.sender = aiAgent THEN 1 ELSE 0)
       /\ ConfirmersOf(last.txId)
            = (IF last.sender = aiAgent THEN {last.sender} ELSE {})
  /\ (TwoOfTwo /\ last.op = "confirmTransaction") =>
       /\ last.sender \in ConfirmersOf(last.txId)
       /\ Tx(W, last.txId).executed
            <=> Tx(W, last.txId).confirmationCount = 2
       /\ Tx(W, last.txId).executed
            <=> ConfirmersOf(last.txId) = {"A", "B"}

\* A, who is not the AI agent, submitted a transaction of 5 ether; A and
\* then B confirmed it, and B's confirmation executed it
C6_Witness ==
  /\ TwoOfTwo /\ aiAgent # "A"
  /\ last.op = "confirmTransaction" /\ last.sender = "B"
  /\ submitter[last.txId + 1] = "A"
  /\ Tx(W, last.txId).value = DefaultTransactionLimit
  /\ Tx(W, last.txId).executed
  /\ Tx(W, last.txId).confirmationCount = 2

(***************************************************************************)
(* C7: a direct executeTransaction whose external call fails reverts with  *)
(* "transaction execution failed" and leaves the storage exactly as it     *)
(* was: executed false, dailySpent and lastTransactionTime of every        *)
(* account, the events; the same call with a call that succeeds still      *)
(* executes the transaction.                                               *)
(***************************************************************************)
Executable(sender, txId) ==
  /\ isOwner[sender]
  /\ ~Tx(W, txId).executed
  /\ Tx(W, txId).confirmationCount >= requiredConfirmations

C7_FailedTransferRollsBack ==
  \A txId \in TxIds, sender \in Account :
    LET r == executeTransaction(W, now, sender, txId, Plain(FALSE))
    IN /\ ~r.ok
       /\ r.w.transactions = transactions
       /\ r.w.dailySpent = dailySpent
       /\ r.w.lastTransactionTime = lastTransactionTime
       /\ r.w.events = events
       /\ r.w = W
       /\ Executable(sender, txId) =>
            /\ r.err \in ExecutionFailure
            /\ executeTransaction(r.w, now, sender, txId, Plain(TRUE)).ok

\* a pending transaction with quorum that an owner can execute directly, so
\* that executeTransaction gets as far as the external call
C7_Witness ==
  \E txId \in TxIds, sender \in Account :
    /\ Executable(sender, txId)
    /\ executeTransaction(W, now, sender, txId, Plain(FALSE)).err
         = "transaction execution failed"
    /\ last.op = "removeOwner"

(***************************************************************************)
(* C8: 1 <= requiredConfirmations <= number of entries of owners, in the   *)
(* initial state and after every addOwner, removeOwner, completeRecovery.  *)
(***************************************************************************)
C8_ThresholdWithinOwners ==
  1 <= requiredConfirmations /\ requiredConfirmations <= Len(owners)

\* removeOwner has left a single entry and the threshold is 1
C8_Witness ==
  /\ last.op = "removeOwner"
  /\ Len(owners) = 1
  /\ requiredConfirmations = 1

(***************************************************************************)
(* C9: the entries of owners are pairwise distinct.                        *)
(***************************************************************************)
C9_OwnersDistinct ==
  \A i, j \in 1..Len(owners) : owners[i] = owners[j] => i = j

(***************************************************************************)
(* C10: the owner set is never empty: some account passes the owner check. *)
(***************************************************************************)
C10_SomeOwner ==
  \E a \in Account : isOwner[a]

(***************************************************************************)
(* The amounts on which the limit checks are evaluated: 0 and every limit  *)
(* in use, each with the amount just above it.                             *)
(***************************************************************************)
Amounts ==
  {0, DefaultTransactionLimit, DefaultTransactionLimit + 1,
   DefaultTransactionLimit + 10, DefaultTransactionLimit + 11,
   DefaultDailyLimit, DefaultDailyLimit + 1}

(***************************************************************************)
(* C11 as stated: for every caller, a submitTransaction to a valid         *)
(* recipient with _value > settings.transactionLimit fails with a          *)
(* LimitExceeded error and appends nothing to transactions.                *)
(***************************************************************************)
C11_OverLimitIsLimitExceeded ==
  \A sender \in Account, value \in Amounts, callee \in CalleesWindow :
    value > settings.transactionLimit =>
      LET r == submitTransaction(W, now, sender, "C", value, NoData, callee)
      IN /\ ~r.ok
         /\ r.err \in LimitExceeded
         /\ r.w.transactions = transactions

(***************************************************************************)
(* C11 amended: for every number of owners, threshold, caller and          *)
(* recipient, a submitTransaction with _value > settings.transactionLimit, *)
(* the limit in force at the call, fails, leaves the storage unchanged and *)
(* appends nothing to transactions; the error is the LimitExceeded         *)
(* "exceeds transaction limit" when the caller is an owner and the         *)
(* recipient is not null, and an AuthorizationError when the caller is not *)
(* an owner.                                                               *)
(***************************************************************************)
C11_OverLimitRejected ==
  \A sender \in Account, to \in Address, value \in Amounts,
     callee \in CalleesWindow :
    value > settings.transactionLimit =>
      LET r == submitTransaction(W, now, sender, to, value, NoData, callee)
      IN /\ Failed(r)
         /\ r.w.transactions = transactions
         /\ (isOwner[sender] /\ to # Null) =>
              /\ r.err = "exceeds transaction limit"
              /\ r.err \in LimitExceeded
         /\ ~isOwner[sender] =>
              /\ r.err = "caller is not an owner"
              /\ r.err \in AuthorizationError

\* an owner has raised transactionLimit: the amount just above the limit
\* of the constructor is now accepted, the amount just above the limit in
\* force is rejected
C11_Witness ==
  \E o \in Account :
    /\ isOwner[o]
    /\ last.op = "updateSettings"
    /\ settings.transactionLimit > DefaultTransactionLimit
    /\ submitTransaction(W, now, o, "C", DefaultTransactionLimit + 1, NoData,
                         Plain(TRUE)).ok
    /\ submitTransaction(W, now, o, "C", settings.transactionLimit + 1,
                         NoData, Plain(TRUE)).err = "exceeds transaction limit"

(***************************************************************************)
(* C12: a submitTransaction by an owner o to a valid recipient with        *)
(* _value <= settings.transactionLimit fails with a LimitExceeded error    *)
(* exactly when dailySpent[o] + _value > settings.dailyLimit, where        *)
(* dailySpent[o] counts as 0 once block.timestamp >=                       *)
(* lastTransactionTime[o] + 1 day; the error is "exceeds daily limit" and  *)
(* the storage, dailySpent[o] and lastTransactionTime[o] included, is as   *)
(* before the call.  For the null recipient the call fails as well, never  *)
(* with a LimitExceeded error.                                             *)
(***************************************************************************)
SpentInWindow(o) ==
  IF now >= lastTransactionTime[o] + DAY THEN 0 ELSE dailySpent[o]

C12_DailyLimitExactly ==
  \A o \in Account, to \in Address, value \in Amounts, callee \in CalleesWindow :
    (isOwner[o] /\ value <= settings.transactionLimit) =>
      LET r == submitTransaction(W, now, o, to, value, NoData, callee)
          over == SpentInWindow(o) + value > settings.dailyLimit
      IN IF to = Null
         THEN Failed(r) /\ r.err \notin LimitExceeded
         ELSE /\ (~r.ok /\ r.err \in LimitExceeded) <=> over
              /\ over =>
                   /\ Failed(r)
                   /\ r.err = "exceeds daily limit"
                   /\ r.w.dailySpent = dailySpent
                   /\ r.w.lastTransactionTime = lastTransactionTime

\* owner o has spent in the running window and an amount within
\* transactionLimit no longer fits under dailyLimit; and an owner whose
\* window has run out is refused an amount above dailyLimit, which undoes
\* the reset of the window
C12_Witness ==
  /\ \E o \in Account, value \in Amounts :
       /\ isOwner[o]
       /\ dailySpent[o] > 0 /\ now < lastTransactionTime[o] + DAY
       /\ value <= settings.transactionLimit
       /\ value <= settings.dailyLimit
       /\ submitTransaction(W, now, o, "C", value, NoData, Plain(TRUE)).err
            = "exceeds daily limit"
  /\ \E o \in Account, value \in Amounts :
       /\ isOwner[o]
       /\ dailySpent[o] > 0 /\ now >= lastTransactionTime[o] + DAY
       /\ value <= settings.transactionLimit
       /\ submitTransaction(W, now, o, "C", value, NoData, Plain(TRUE)).err
            = "exceeds daily limit"

(***************************************************************************)
(* C13: the daily window resets.  When owner o has consumed v1 of the      *)
(* daily cap at time t0 (an execution at t0 has added the value of its     *)
(* transaction to dailySpent[o]; consumedAt[o] is the first such t0), then *)
(* at every time >= t0 + 1 day a submitTransaction by o to a valid         *)
(* recipient of                                                            *)
(* v2 <= settings.dailyLimit and v2 <= settings.transactionLimit, whose    *)
(* transfer succeeds when it is made, succeeds, also when                  *)
(* v1 + v2 > settings.dailyLimit.  A second execution in a call of o       *)
(* shortly before t0 + 1 day moves lastTransactionTime[o], and the submit  *)
(* at t0 + 1 day meets the amounts of both executions.                     *)
(***************************************************************************)
C13_SubmitSucceeds(o) ==
  \A to \in Address \ {Null}, v2 \in Amounts :
    (/\ isOwner[o]
     /\ v2 <= settings.dailyLimit
     /\ v2 <= settings.transactionLimit) =>
      submitTransaction(W, now, o, to, v2, NoData, Plain(TRUE)).ok

C13_WindowReset ==
  \A o \in Account :
    (consumedAt[o] # 0 /\ now >= consumedAt[o] + DAY) =>
      C13_SubmitSucceeds(o)

(***************************************************************************)
(* C14: completeRecovery succeeds, for every caller, exactly when a        *)
(* recovery is pending and block.timestamp >= recoveryInitTime + 7 days:   *)
(* it fails 6 days and 7 days less a second after initiateRecovery and     *)
(* succeeds 7 days and 7 days and a second after it.  A call that fails    *)
(* has a RecoveryTimingError and changes nothing; a call that succeeds     *)
(* makes pendingRecoveryOwner an owner, keeps every owner an owner and     *)
(* keeps requiredConfirmations.                                            *)
(***************************************************************************)
C14_CompleteRecoveryTiming ==
  \A sender \in Account :
    LET r == completeRecovery(W, now, sender)
        pending == pendingRecoveryOwner # Null
    IN /\ r.ok <=> (pending /\ now >= recoveryInitTime + 7 * DAY)
       /\ (pending /\ now \in {recoveryInitTime + 6 * DAY,
                                recoveryInitTime + 7 * DAY - 1}) => ~r.ok
       /\ (pending /\ now \in {recoveryInitTime + 7 * DAY,
                                recoveryInitTime + 7 * DAY + 1}) => r.ok
       /\ ~r.ok => Failed(r) /\ r.err \in RecoveryTimingError
       /\ r.ok =>
            /\ r.w.isOwner[pendingRecoveryOwner]
            /\ \A a \in Account : isOwner[a] => r.w.isOwner[a]
            /\ r.w.requiredConfirmations = requiredConfirmations

\* the recovery of C, initiated at deployment, was completed exactly 7 days
\* later: C is an owner next to A and B
C14_Witness ==
  /\ last.op = "completeRecovery" /\ last.addr = "C"
  /\ now = StartTime + RECOVERY_DELAY
  /\ owners = <<"A", "B", "C">>
  /\ \A a \in Account : isOwner[a]

(***************************************************************************)
(* C15: the recovery state is cleared by its resolution.  After a          *)
(* completeRecovery or cancelRecovery that succeeds pendingRecoveryOwner   *)
(* is null and recoveryInitTime is 0; while pendingRecoveryOwner is null,  *)
(* at whatever time, completeRecovery and cancelRecovery fail for every    *)
(* caller, no entry is added to owners and no account becomes an owner,    *)
(* and only an initiateRecovery makes a recovery pending again; a step     *)
(* that adds an entry to owners adds exactly pendingRecoveryOwner and      *)
(* clears it.                                                              *)
(***************************************************************************)
C15_Resolved ==
  /\ last.op \in {"completeRecovery", "cancelRecovery"} =>
       pendingRecoveryOwner = Null /\ recoveryInitTime = 0
  /\ pendingRecoveryOwner = Null =>
       \A sender \in Account :
         /\ Failed(completeRecovery(W, now, sender))
         /\ Failed(cancelRecovery(W, sender))

C15_OneOwnerPerRecovery ==
  /\ Len(owners') > Len(owners) =>
       /\ pendingRecoveryOwner # Null
       /\ owners' = Append(owners, pendingRecoveryOwner)
       /\ pendingRecoveryOwner' = Null
  /\ pendingRecoveryOwner = Null =>
       /\ owners' = owners /\ isOwner' = isOwner
       /\ pendingRecoveryOwner' # Null => last'.op = "initiateRecovery"

C15_RecoveryCleared ==
  [](C15_Resolved) /\ [][C15_OneOwnerPerRecovery]_vars

\* one recovery was completed after its delay, and a later one has been
\* cancelled
C15_Witness ==
  /\ last.op = "cancelRecovery"
  /\ pendingRecoveryOwner = Null
  /\ Len(owners) = 3
  /\ now > StartTime + RECOVERY_DELAY

(***************************************************************************)
(* C16: executeAITransaction fails, without a transfer and without a       *)
(* change of the storage, whenever the caller is not aiAgent, with an      *)
(* AuthorizationError, and whenever _value > 0.1 ether, whoever calls:     *)
(* with the LimitExceeded "AI transaction limit exceeded" when the caller  *)
(* is aiAgent.  The ceiling is the same under every setting of dailyLimit  *)
(* and transactionLimit: at the ceiling the agent's call goes through.     *)
(***************************************************************************)
C16_AgentAndCeiling ==
  \A sender \in Account, to \in Address, value \in AIValues,
     callee \in CalleesAgent :
    LET r == executeAITransaction(W, now, sender, to, value, NoData, callee)
    IN /\ sender # aiAgent =>
            /\ Failed(r)
            /\ r.err = "caller is not AI agent"
            /\ r.err \in AuthorizationError
       /\ value > AI_LIMIT =>
            /\ Failed(r)
            /\ r.err \in AuthorizationError \cup LimitExceeded
            /\ sender = aiAgent =>
                 /\ r.err = "AI transaction limit exceeded"
                 /\ r.err \in LimitExceeded
       /\ (sender = aiAgent /\ value <= AI_LIMIT /\ to # Null) => r.ok

\* an owner has set transactionLimit and dailyLimit above the ceiling and
\* the agent, who is not an owner, is refused the amount just above it
C16_Witness ==
  /\ last.op = "updateSettings"
  /\ settings.transactionLimit > AI_LIMIT
  /\ settings.dailyLimit > AI_LIMIT
  /\ ~isOwner[aiAgent]
  /\ executeAITransaction(W, now, aiAgent, "C", AI_LIMIT + 1, NoData, Plain(TRUE)).err
       = "AI transaction limit exceeded"

(***************************************************************************)
(* C17 as stated: for every recipient, executeAITransaction called by      *)
(* aiAgent with _value <= 0.1 ether does not revert and returns the        *)
(* outcome of the transfer.                                                *)
(***************************************************************************)
C17_NeverAborts ==
  \A to \in Address, value \in AIValues, callee \in CalleesAgent :
    value <= AI_LIMIT =>
      LET r == executeAITransaction(W, now, aiAgent, to, value, NoData, callee)
      IN r.ok /\ r.ret = callee.ok

(***************************************************************************)
(* C17 amended: for every recipient other than the null address,           *)
(* executeAITransaction called by aiAgent with _value <= 0.1 ether does    *)
(* not revert: it returns true when the transfer succeeds and false when   *)
(* it fails, whatever the target does with the control that the transfer   *)
(* hands to it; for the null recipient it reverts with the                 *)
(* ValidationError "invalid recipient".                                    *)
(***************************************************************************)
C17_ReturnsTransferOutcome ==
  \A to \in Address, value \in AIValues, callee \in CalleesAgent :
    value <= AI_LIMIT =>
      LET r == executeAITransaction(W, now, aiAgent, to, value, NoData, callee)
      IN IF to = Null
         THEN /\ Failed(r)
              /\ r.err = "invalid recipient"
              /\ r.err \in ValidationError
         ELSE r.ok /\ r.ret = callee.ok

\* the agent's call of 0.1 ether has returned false: the transfer failed and
\* the call did not revert
C17_Witness ==
  /\ last.op = "executeAITransaction"
  /\ last.sender = aiAgent
  /\ last.addr = "C"
  /\ last.ret = FALSE

(***************************************************************************)
(* C18: the owner-only functions are closed to everyone else.  For every   *)
(* account that is not an owner at the time of the call (an owner removed  *)
(* by removeOwner, the AI agent, the recovery agent), submitTransaction,   *)
(* confirmTransaction, executeTransaction, updateSettings, addOwner,       *)
(* removeOwner and cancelRecovery fail for all arguments with the          *)
(* AuthorizationError "caller is not an owner" and leave the storage       *)
(* unchanged.                                                              *)
(***************************************************************************)
Unauthorized(r) ==
  /\ Failed(r)
  /\ r.err = "caller is not an owner"
  /\ r.err \in AuthorizationError

C18_OwnerOnly ==
  \A sender \in Account :
    ~isOwner[sender] =>
      /\ \A to \in Address, value \in {0, DefaultTransactionLimit},
            callee \in CalleesAccess :
           Unauthorized(submitTransaction(W, now, sender, to, value, NoData,
                                          callee))
      /\ \A txId \in 0..(MaxTxAccess - 1), callee \in CalleesAccess :
           /\ Unauthorized(confirmTransaction(W, now, sender, txId, callee))
           /\ Unauthorized(executeTransaction(W, now, sender, txId, callee))
      /\ \A dailyLimit \in {0, DefaultDailyLimit},
            transactionLimit \in {0, DefaultTransactionLimit},
            recoveryAgent \in Address :
           Unauthorized(updateSettings(W, sender, dailyLimit,
                                       transactionLimit, recoveryAgent))
      /\ \A a \in Address :
           /\ Unauthorized(addOwner(W, sender, a))
           /\ Unauthorized(removeOwner(W, sender, a))
      /\ Unauthorized(cancelRecovery(W, sender))

\* B, the recovery agent, has been removed from the owners while a
\* transaction and a recovery are pending; the AI agent C is not an owner
C18_Witness ==
  /\ last.op = "removeOwner" /\ last.addr = "B"
  /\ ~isOwner["B"] /\ ~isOwner["C"]
  /\ settings.recoveryAgent = "B" /\ aiAgent = "C"
  /\ pendingRecoveryOwner # Null
  /\ Len(transactions) = 1 /\ ~transactions[1].executed

(***************************************************************************)
(* C19: transactions is append-only with sequential ids.  A                *)
(* submitTransaction that succeeds returns transactions.length from before *)
(* the call and stores its arguments at that index; in every step the      *)
(* length of transactions does not decrease, it grows by one for every     *)
(* submitTransaction of the step (the one called and those that the        *)
(* targets of its transfers call before they return) and by nothing else,  *)
(* and to, value and data of every existing entry stay as they are.        *)
(***************************************************************************)
C19_SubmitReturnsLength ==
  \A sender \in Account, to \in Address, value \in Values,
     callee \in CalleesLedger :
    LET r == submitTransaction(W, now, sender, to, value, NoData, callee)
    IN r.ok =>
         /\ r.ret = Len(transactions)
         /\ Len(r.w.transactions) = Len(transactions) + Len(r.submitted)
         /\ r.submitted[1] = sender
         /\ Tx(r.w, r.ret).to = to
         /\ Tx(r.w, r.ret).value = value
         /\ Tx(r.w, r.ret).data = NoData

C19_EntriesKept ==
  /\ Len(transactions') >= Len(transactions)
  /\ \A i \in 1..Len(transactions) :
       /\ transactions'[i].to = transactions[i].to
       /\ transactions'[i].value = transactions[i].value
       /\ transactions'[i].data = transactions[i].data
  /\ Len(transactions') =
       Len(transactions) + Calls(last', "submitTransaction")
         + (IF last'.op = "submitTransaction" THEN 1 ELSE 0)
  /\ last'.op = "submitTransaction" => last'.txId = Len(transactions)

C19_AppendOnly ==
  [](C19_SubmitReturnsLength) /\ [][C19_EntriesKept]_vars

\* the second submitTransaction has returned id 1 after transaction 0 was
\* confirmed and executed in place
C19_Witness ==
  /\ last.op = "submitTransaction" /\ last.txId = 1
  /\ Len(transactions) = 2
  /\ transactions[1].executed
  /\ transactions[1].confirmationCount = 2

(***************************************************************************)
(* C20: a transfer that fails inside a cascade reverts the outer call.     *)
(* When an owner's confirmTransaction reaches requiredConfirmations and    *)
(* the transfer of the executeTransaction it calls fails, the call fails   *)
(* with "transaction execution failed", the confirmation is not recorded   *)
(* and confirmationCount is as before; when a submitTransaction that       *)
(* passes the limits confirms and executes on its own (threshold 1) and    *)
(* the transfer fails, no entry is appended and dailySpent and             *)
(* lastTransactionTime of the submitter are as before the reset of the     *)
(* window.  In both cases the storage is unchanged, and the same call with *)
(* a transfer that succeeds goes through.                                  *)
(***************************************************************************)
C20_ConfirmCascade ==
  \A sender \in Account, txId \in TxIds :
    (/\ isOwner[sender]
     /\ ~Tx(W, txId).executed
     /\ <<txId, sender>> \notin isConfirmed
     /\ Tx(W, txId).confirmationCount + 1 >= requiredConfirmations) =>
      LET r == confirmTransaction(W, now, sender, txId, Plain(FALSE))
      IN /\ Failed(r)
         /\ r.err \in ExecutionFailure
         /\ <<txId, sender>> \notin r.w.isConfirmed
         /\ Tx(r.w, txId).confirmationCount = Tx(W, txId).confirmationCount
         /\ confirmTransaction(W, now, sender, txId, Plain(TRUE)).ok

C20_SubmitCascade ==
  \A sender \in Account, value \in Values :
    (/\ isOwner[sender]
     /\ value <= settings.transactionLimit
     /\ SpentInWindow(sender) + value <= settings.dailyLimit
     /\ requiredConfirmations = 1) =>
      LET r == submitTransaction(W, now, sender, "C", value, NoData, Plain(FALSE))
      IN /\ Failed(r)
         /\ r.err \in ExecutionFailure
         /\ Len(r.w.transactions) = Len(transactions)
         /\ r.w.dailySpent[sender] = dailySpent[sender]
         /\ r.w.lastTransactionTime[sender] = lastTransactionTime[sender]
         /\ submitTransaction(W, now, sender, "C", value, NoData, Plain(TRUE)).ok

C20_CascadeRollsBack == C20_ConfirmCascade /\ C20_SubmitCascade

\* removeOwner has lowered the threshold to 1 with a transaction pending:
\* the owner's confirmTransaction would execute it, the owner's
\* submitTransaction would execute the new transaction after the reset of
\* the owner's window, and both fail on a transfer that fails
C20_Witness ==
  \E o \in Account, txId \in TxIds :
    /\ last.op = "removeOwner"
    /\ isOwner[o] /\ requiredConfirmations = 1
    /\ ~Tx(W, txId).executed /\ <<txId, o>> \notin isConfirmed
    /\ now >= lastTransactionTime[o] + DAY
    /\ confirmTransaction(W, now, o, txId, Plain(FALSE)).err
         = "transaction execution failed"
    /\ submitTransaction(W, now, o, "C", DefaultTransactionLimit, NoData,
                         Plain(FALSE)).err = "transaction execution failed"


(***************************************************************************)
(* C21: a successful submit confirms the new transaction for the caller    *)
(* exactly when the caller is the automation agent or one confirmation is  *)
(* required: the transaction then has confirmationCount 1, the caller as   *)
(* its only confirmer, and is executed iff one confirmation is required;   *)
(* otherwise it has confirmationCount 0, no confirmer and is not executed. *)
(***************************************************************************)
ConfirmersIn(w, txId) == {o \in Account : <<txId, o>> \in w.isConfirmed}

C21_SubmitAutoConfirms ==
  \A sender \in Account, to \in Address, value \in Values, callee \in CalleesLedger :
    LET r == submitTransaction(W, now, sender, to, value, NoData, callee)
    IN r.ok =>
         IF sender = aiAgent \/ requiredConfirmations = 1
         THEN /\ Tx(r.w, r.ret).confirmationCount = 1
              /\ ConfirmersIn(r.w, r.ret) = {sender}
              /\ Tx(r.w, r.ret).executed <=> requiredConfirmations = 1
         ELSE /\ Tx(r.w, r.ret).confirmationCount = 0
              /\ ConfirmersIn(r.w, r.ret) = {}
              /\ ~Tx(r.w, r.ret).executed

\* the agent, an owner of a two-confirmation wallet, has just submitted: its
\* confirmation is recorded and the transaction is pending, next to an
\* earlier transaction that another owner submitted and nobody confirmed
C21_Witness ==
  /\ last.op = "submitTransaction"
  /\ last.sender = aiAgent
  /\ requiredConfirmations = 2
  /\ last.txId = 1
  /\ ConfirmersOf(1) = {aiAgent}
  /\ ~Tx(W, 1).executed
  /\ submitter[1] # aiAgent
  /\ ConfirmersOf(0) = {}
  /\ Tx(W, 0).confirmationCount = 0

(***************************************************************************)
(* C22: a successful confirm never leaves its transaction pending at or    *)
(* above quorum: right after it either the transaction is executed, or it  *)
(* is not executed and confirmationCount < requiredConfirmations.          *)
(***************************************************************************)
C22_ConfirmResult ==
  \A sender \in Account, txId \in TxIds, callee \in CalleesWallet :
    LET r == confirmTransaction(W, now, sender, txId, callee)
    IN r.ok =>
         \/ Tx(r.w, txId).executed
         \/ /\ ~Tx(r.w, txId).executed
            /\ Tx(r.w, txId).confirmationCount < r.w.requiredConfirmations

C22_ConfirmStep ==
  [][(last'.op = "confirmTransaction" /\ last' # last) =>
       LET t == transactions'[last'.txId + 1]
       IN \/ t.executed
          \/ ~t.executed /\ t.confirmationCount < requiredConfirmations']_vars

C22_NoPendingAtQuorumAfterConfirm == []C22_ConfirmResult /\ C22_ConfirmStep

\* a confirm has just executed a transaction whose count, with this
\* confirmation, exceeds the threshold that a removal lowered to one
C22_Witness ==
  /\ last.op = "confirmTransaction"
  /\ Tx(W, last.txId).executed
  /\ Tx(W, last.txId).confirmationCount > requiredConfirmations
  /\ last.sender \in ConfirmersOf(last.txId)

(***************************************************************************)
(* C24: a successful submit that does not execute the new transaction      *)
(* leaves dailySpent of every owner unchanged, except that the submitter's *)
(* dailySpent becomes 0 when 24 hours have passed since the submitter's    *)
(* lastTransactionTime.                                                    *)
(***************************************************************************)
C24_SubmitDoesNotSpend ==
  \A sender \in Account, to \in Address, value \in Values, callee \in CalleesLedger :
    LET r == submitTransaction(W, now, sender, to, value, NoData, callee)
    IN (r.ok /\ ~Tx(r.w, r.ret).executed) =>
         \A o \in Account :
           r.w.dailySpent[o] =
             IF o = sender /\ now >= lastTransactionTime[sender] + DAY
             THEN 0 ELSE dailySpent[o]

C24_SubmitStep ==
  [][(last'.op = "submitTransaction" /\ last' # last
        /\ ~transactions'[last'.txId + 1].executed) =>
       \A o \in Account :
         dailySpent'[o] =
           IF o = last'.sender /\ now >= lastTransactionTime[o] + DAY
           THEN 0 ELSE dailySpent[o]]_vars

C24_PendingSubmitSpendsNothing == []C24_SubmitDoesNotSpend /\ C24_SubmitStep

\* an owner who executed a transaction in an earlier window has just
\* submitted a transaction that stays pending: the owner's dailySpent is
\* back to 0 and the stamp is the time of this submit
C24_Witness ==
  /\ last.op = "submitTransaction"
  /\ last.txId = 1
  /\ ~Tx(W, 1).executed
  /\ Tx(W, 0).executed
  /\ \E i \in 1..Len(events[1]) :
       events[1][i] = <<"TransactionExecuted", last.sender>>
  /\ Tx(W, 0).value > 0
  /\ dailySpent[last.sender] = 0
  /\ lastTransactionTime[last.sender] = now


(***************************************************************************)
(* C25: lastTransactionTime of an owner changes only in a submit by that   *)
(* owner in which the 24 hour reset fires; an execution adds to dailySpent *)
(* and leaves lastTransactionTime alone, so that the window opened at s is *)
(* reset by the owner's first submit at or after s + 24h.                  *)
(***************************************************************************)
C25_WindowStartOnlyAtReset ==
  [][\A o \in Account :
       lastTransactionTime'[o] # lastTransactionTime[o] =>
         /\ last'.op = "submitTransaction"
         /\ last'.sender = o
         /\ now >= lastTransactionTime[o] + DAY
         /\ lastTransactionTime'[o] = now]_vars


(***************************************************************************)
(* C26: initiateRecovery succeeds only for the recoveryAgent of the        *)
(* settings or an owner, and only with a non-null newOwner; it replaces a  *)
(* recovery already pending: from the storage it leaves, completeRecovery  *)
(* fails before now + RECOVERY_DELAY, also when the delay of the replaced  *)
(* recovery has passed, and at now + RECOVERY_DELAY it adds newOwner and   *)
(* nobody else.                                                            *)
(***************************************************************************)
C26_InitiateOverwrites ==
  \A sender \in Account, newOwner \in Address :
    LET r == initiateRecovery(W, now, sender, newOwner)
    IN /\ r.ok => /\ sender = settings.recoveryAgent \/ isOwner[sender]
                  /\ newOwner # Null
       /\ ~r.ok => Failed(r)
       /\ r.ok =>
            /\ r.w = [W EXCEPT !.pendingRecoveryOwner = newOwner,
                               !.recoveryInitTime = now]
            /\ \A caller \in Account :
                 /\ \A t \in {now, now + RECOVERY_DELAY - 1} :
                      LET c == completeRecovery(r.w, t, caller)
                      IN ~c.ok /\ c.w = r.w /\ c.err \in RecoveryTimingError
                 /\ LET c == completeRecovery(r.w, now + RECOVERY_DELAY, caller)
                    IN /\ c.ok
                       /\ c.w.owners = Append(owners, newOwner)
                       /\ c.w.isOwner = [isOwner EXCEPT ![newOwner] = TRUE]

C26_CompletionAddsPending ==
  [][(last'.op = "completeRecovery" /\ last' # last) =>
       /\ pendingRecoveryOwner # Null
       /\ now >= recoveryInitTime + RECOVERY_DELAY
       /\ owners' = Append(owners, pendingRecoveryOwner)
       /\ isOwner' = [isOwner EXCEPT ![pendingRecoveryOwner] = TRUE]]_vars

C26_RecoveryOverwrite == []C26_InitiateOverwrites /\ C26_CompletionAddsPending

\* a recovery for B has just been initiated one delay after deployment by
\* an account that is the recovery agent and not an owner; completeRecovery
\* is refused at this instant
C26_Witness ==
  /\ last.op = "initiateRecovery"
  /\ last.sender = settings.recoveryAgent
  /\ ~isOwner[last.sender]
  /\ now = StartTime + RECOVERY_DELAY
  /\ pendingRecoveryOwner = "B"
  /\ recoveryInitTime = now
  /\ ~isOwner["B"]
  /\ completeRecovery(W, now, "A").err = "recovery delay not passed"


(***************************************************************************)
(* C27: a call of executeAITransaction leaves the storage as it is,        *)
(* whether it returns true, returns false or reverts: ledger,              *)
(* confirmations, dailySpent, lastTransactionTime, owners, threshold,      *)
(* settings and recovery state stay as they are; and whether it succeeds,  *)
(* and what it returns, is the same under any dailyLimit, transactionLimit *)
(* and dailySpent.  The function writes nothing itself, but its transfer   *)
(* hands control to the target with nothing that keeps the target from     *)
(* calling the wallet: a target that is an owner removes an owner, changes *)
(* the settings or submits a transaction before executeAITransaction       *)
(* returns true.                                                           *)
(***************************************************************************)
C27_WritesNothing ==
  \A sender \in Account, to \in Address, value \in AIValues,
     callee \in CalleesAutomated :
    LET r == executeAITransaction(W, now, sender, to, value, NoData, callee)
    IN /\ r.w = W
       /\ \A limits \in Limits \cup {<<0, 0>>}, spent \in Amounts :
            LET w2 == [W EXCEPT !.settings.dailyLimit = limits[1],
                                !.settings.transactionLimit = limits[2],
                                !.dailySpent = [a \in DOMAIN @ |-> spent]]
                r2 == executeAITransaction(w2, now, sender, to, value, NoData, callee)
            IN /\ r2.ok = r.ok
               /\ r2.err = r.err
               /\ r.ok => r2.ret = r.ret
               /\ r2.w = w2

C27_CallStep ==
  [][last'.op = "executeAITransaction" =>
       UNCHANGED <<owners, isOwner, requiredConfirmations, transactions,
                   isConfirmed, settings, aiAgent, lastTransactionTime,
                   dailySpent, pendingRecoveryOwner, recoveryInitTime,
                   events>>]_vars

C27_AutomatedIsStateless == []C27_WritesNothing /\ C27_CallStep


(***************************************************************************)
(* C28: updateSettings succeeds for every owner and for nobody else; it    *)
(* replaces dailyLimit, transactionLimit and recoveryAgent and changes     *)
(* nothing else, the isActive flag included. The submit that follows is    *)
(* accepted or refused by the new limits, and the initiateRecovery that    *)
(* follows by the new recoveryAgent: the previous recovery agent, unless   *)
(* an owner, is refused with an AuthorizationError.                        *)
(***************************************************************************)
C28_SettingsReplaced ==
  \A sender \in Account, limits \in Limits, agent \in Address,
     active \in BOOLEAN :
    LET w0 == [W EXCEPT !.settings.isActive = active]
        r == updateSettings(w0, sender, limits[1], limits[2], agent)
    IN /\ r.ok <=> isOwner[sender]
       /\ ~r.ok => r.w = w0
       /\ r.ok => r.w = [w0 EXCEPT !.settings =
                           [dailyLimit |-> limits[1],
                            transactionLimit |-> limits[2],
                            recoveryAgent |-> agent,
                            isActive |-> active]]

C28_NewLimitsInForce ==
  \A sender \in Account, limits \in Limits :
    LET r == updateSettings(W, sender, limits[1], limits[2],
                            settings.recoveryAgent)
    IN r.ok =>
         \A o \in Account, value \in Amounts :
           isOwner[o] =>
             LET s == submitTransaction(r.w, now, o, "C", value, NoData, Plain(TRUE))
             IN /\ s.ok <=> /\ value <= limits[2]
                            /\ SpentInWindow(o) + value <= limits[1]
                /\ ~s.ok => s.err \in LimitExceeded

C28_NewAgentInForce ==
  \A sender \in Account, agent \in Address :
    LET r == updateSettings(W, sender, settings.dailyLimit,
                            settings.transactionLimit, agent)
    IN r.ok =>
         \A caller \in Account :
           LET i == initiateRecovery(r.w, now, caller, "C")
           IN /\ i.ok <=> (caller = agent \/ isOwner[caller])
              /\ (caller = settings.recoveryAgent /\ caller # agent
                    /\ ~isOwner[caller]) =>
                   ~i.ok /\ i.err \in AuthorizationError

C28_UpdateStep ==
  [][last'.op = "updateSettings" =>
       /\ settings'.recoveryAgent = last'.addr
       /\ settings'.isActive = settings.isActive
       /\ UNCHANGED <<owners, isOwner, requiredConfirmations, transactions,
                      isConfirmed, aiAgent, lastTransactionTime, dailySpent,
                      pendingRecoveryOwner, recoveryInitTime>>]_vars

C28_UpdateSettingsFrame ==
  /\ []C28_SettingsReplaced
  /\ []C28_NewLimitsInForce
  /\ []C28_NewAgentInForce
  /\ C28_UpdateStep

\* an owner has just made B the recovery agent in place of C, which is not
\* an owner: C's initiateRecovery is now refused and B's is accepted
C28_Witness ==
  /\ last.op = "updateSettings"
  /\ settings.recoveryAgent = "B"
  /\ aiAgent = "C"
  /\ ~isOwner["C"]
  /\ initiateRecovery(W, now, "C", "C").err = "not authorized"
  /\ initiateRecovery(W, now, "B", "C").ok


(***************************************************************************)
(* C29: removeOwner(o) called by an owner fails if o is not an owner and   *)
(* fails if the removal would leave no owner; when it succeeds exactly o   *)
(* stops being an owner, every other owner stays one, and                  *)
(* requiredConfirmations becomes the minimum of its old value and the new  *)
(* number of owners; transactions and isConfirmed are unchanged.           *)
(***************************************************************************)
OwnersOf(w) == {a \in Address : w.isOwner[a]}

C29_RemoveOwner ==
  \A sender \in Account, o \in Address :
    isOwner[sender] =>
      LET r == removeOwner(W, sender, o)
          n == Cardinality(OwnersOf(r.w))
      IN /\ ~isOwner[o] => Failed(r)
         /\ OwnersOf(W) \ {o} = {} => Failed(r)
         /\ r.ok =>
              /\ OwnersOf(r.w) = OwnersOf(W) \ {o}
              /\ o \in OwnersOf(W)
              /\ r.w.requiredConfirmations =
                   IF requiredConfirmations < n
                   THEN requiredConfirmations ELSE n
              /\ r.w.transactions = transactions
              /\ r.w.isConfirmed = isConfirmed


(***************************************************************************)
(* C30: addOwner(o) called by an owner fails with a ValidationError and    *)
(* without any change when o is null or already an owner; otherwise it     *)
(* succeeds, makes o an owner, appends o to owners and leaves              *)
(* requiredConfirmations and the rest of the storage as it was.            *)
(***************************************************************************)
C30_AddOwnerResult ==
  \A sender \in Account, o \in Address :
    isOwner[sender] =>
      LET r == addOwner(W, sender, o)
      IN IF o = Null \/ isOwner[o]
         THEN Failed(r) /\ r.err \in ValidationError
         ELSE /\ r.ok
              /\ r.w = [W EXCEPT !.isOwner[o] = TRUE,
                                 !.owners = Append(@, o)]
              /\ OwnersOf(r.w) = OwnersOf(W) \cup {o}
              /\ r.w.requiredConfirmations = requiredConfirmations

C30_AddOwnerStep ==
  [][(last'.op = "addOwner" /\ last' # last) =>
       /\ isOwner[last'.sender]
       /\ last'.addr # Null /\ ~isOwner[last'.addr]
       /\ isOwner' = [isOwner EXCEPT ![last'.addr] = TRUE]
       /\ owners' = Append(owners, last'.addr)
       /\ UNCHANGED <<requiredConfirmations, transactions, isConfirmed,
                      settings, aiAgent, lastTransactionTime, dailySpent,
                      pendingRecoveryOwner, recoveryInitTime, events>>]_vars

C30_AddOwner == []C30_AddOwnerResult /\ C30_AddOwnerStep

\* a third owner has just been added to a wallet that requires two
\* confirmations; adding the same account again is refused
C30_Witness ==
  /\ last.op = "addOwner"
  /\ Len(owners) = 3
  /\ owners[3] = last.addr
  /\ requiredConfirmations = 2
  /\ Cardinality(OwnersOf(W)) = 3
  /\ addOwner(W, last.sender, last.addr).err = "already an owner"


(***************************************************************************)
(* C23: with targets that call back into the wallet (submitTransaction,    *)
(* confirmTransaction or executeTransaction, as an owner) while their      *)
(* transfer is in progress, the external call of a transaction is made at  *)
(* most once: in a call that succeeds no txId is transferred twice, every  *)
(* txId transferred was not executed before the call and is executed after *)
(* it, every transaction that becomes executed is transferred, and         *)
(* executed is never reset.                                                *)
(***************************************************************************)
NoRepeat(seq) == \A i, j \in 1..Len(seq) : seq[i] = seq[j] => i = j

ExecutedIn(txs, txId) == txId < Len(txs) /\ txs[txId + 1].executed

C23_TransferAtMostOnce ==
  [][/\ \A txId \in TxIds :
          ExecutedIn(transactions, txId) => ExecutedIn(transactions', txId)
     /\ transactions' # transactions =>
          /\ NoRepeat(last'.transfers)
          /\ \A i \in 1..Len(last'.transfers) :
               /\ ~ExecutedIn(transactions, last'.transfers[i])
               /\ ExecutedIn(transactions', last'.transfers[i])
          /\ \A txId \in 0..(Len(transactions') - 1) :
               (ExecutedIn(transactions', txId)
                  /\ ~ExecutedIn(transactions, txId)) =>
                 \E i \in 1..Len(last'.transfers) :
                   last'.transfers[i] = txId]_vars

C23_ExecutedOncePerTransaction ==
  \A txId \in TxIds :
    Cardinality({i \in 1..Len(events[txId + 1]) :
                   events[txId + 1][i][1] = "TransactionExecuted"})
      = IF Tx(W, txId).executed THEN 1 ELSE 0

C23_NoDoubleExecution ==
  []C23_ExecutedOncePerTransaction /\ C23_TransferAtMostOnce

\* a submit has just made two transfers: that of its own transaction 0 to
\* B, and, inside it, that of transaction 1, which B submitted from the call
\* back; B's further call backs into transaction 0 are refused
C23_Witness ==
  /\ last.op = "submitTransaction"
  /\ last.txId = 0
  /\ last.transfers = <<0, 1>>
  /\ submitter = <<last.sender, "B">>
  /\ Tx(W, 0).executed /\ Tx(W, 1).executed
  /\ Tx(W, 0).to = "B"


(***************************************************************************)
(* C31: the events of each txId follow the transaction: the log of a txId  *)
(* starts with its one TransactionCreated, holds at most one               *)
(* TransactionConfirmed for each owner and at most one                     *)
(* TransactionExecuted, which comes last; TransactionExecuted is in the    *)
(* log exactly when the transaction is executed; and a submit, confirm or  *)
(* execute that fails leaves the log as it was.                            *)
(***************************************************************************)
C31_LogOf(txId) ==
  LET log == events[txId + 1]
  IN /\ Len(log) >= 1
     /\ log[1] = <<"TransactionCreated", Tx(W, txId).to>>
     /\ \A i \in 2..Len(log) : log[i][1] # "TransactionCreated"
     /\ \A i, j \in 1..Len(log) :
          (log[i][1] = "TransactionConfirmed" /\ log[i] = log[j]) => i = j
     /\ \A i \in 1..Len(log) :
          log[i][1] = "TransactionExecuted" => i = Len(log)
     /\ (\E i \in 1..Len(log) : log[i][1] = "TransactionExecuted")
          <=> Tx(W, txId).executed

C31_FailureAddsNoEvent ==
  \A sender \in Account, callee \in CalleesWallet :
    /\ \A to \in Address, value \in Values :
         LET r == submitTransaction(W, now, sender, to, value, NoData, callee)
         IN ~r.ok => r.w.events = events
    /\ \A txId \in 0..Len(transactions) :
         /\ LET r == confirmTransaction(W, now, sender, txId, callee)
            IN ~r.ok => r.w.events = events
         /\ LET r == executeTransaction(W, now, sender, txId, callee)
            IN ~r.ok => r.w.events = events

C31_EventsMirrorLedger ==
  /\ Len(events) = Len(transactions)
  /\ \A txId \in TxIds : C31_LogOf(txId)
  /\ C31_FailureAddsNoEvent

\* a transaction confirmed by two owners and executed: its log is the
\* creation, the two confirmations and the execution, in this order
C31_Witness ==
  /\ Len(transactions) = 1
  /\ Tx(W, 0).executed
  /\ Len(events[1]) = 4
  /\ events[1][2][1] = "TransactionConfirmed"
  /\ events[1][3][1] = "TransactionConfirmed"
  /\ events[1][2][2] # events[1][3][2]
  /\ events[1][4] = <<"TransactionExecuted", events[1][3][2]>>


(***************************************************************************)
(* C32: while settings.isActive is false, that is from a successful        *)
(* emergencyPause to the next resume, no call executes a transaction and   *)
(* executeAITransaction makes no transfer; and isActive changes only in an *)
(* emergencyPause or resume called by the AI agent.                        *)
(***************************************************************************)
C32_NothingMovesWhilePaused ==
  ~settings.isActive =>
    /\ ~(last.op = "executeAITransaction" /\ last.ret)
    /\ last.op \in {"submitTransaction", "confirmTransaction",
                    "executeTransaction"} =>
         ~Tx(W, last.txId).executed

C32_OnlyAgentSwitches ==
  [][settings'.isActive # settings.isActive =>
       /\ last'.op \in {"emergencyPause", "resume"}
       /\ last'.sender = aiAgent]_vars

C32_PauseStopsWallet == []C32_NothingMovesWhilePaused /\ C32_OnlyAgentSwitches


(***************************************************************************)
(* C33: an AI agent that is not an owner gets an AuthorizationError from   *)
(* submitTransaction, confirmTransaction and executeTransaction; a submit  *)
(* by an agent that is an owner, in a wallet that requires more than one   *)
(* confirmation, leaves the new transaction pending with the agent's       *)
(* confirmation alone; and a transaction that becomes executed while more  *)
(* than one confirmation is required has a confirmer other than the agent. *)
(***************************************************************************)
C33_AgentNeedsOwnership ==
  ~isOwner[aiAgent] =>
    \A callee \in CalleesLedger :
      /\ \A to \in Address, value \in Values :
           LET r == submitTransaction(W, now, aiAgent, to, value, NoData,
                                      callee)
           IN Failed(r) /\ r.err \in AuthorizationError
      /\ \A txId \in 0..Len(transactions) :
           /\ LET r == confirmTransaction(W, now, aiAgent, txId, callee)
              IN Failed(r) /\ r.err \in AuthorizationError
           /\ LET r == executeTransaction(W, now, aiAgent, txId, callee)
              IN Failed(r) /\ r.err \in AuthorizationError

C33_AgentSubmitStaysPending ==
  (isOwner[aiAgent] /\ requiredConfirmations > 1) =>
    \A to \in Address, value \in Values, callee \in CalleesLedger :
      LET r == submitTransaction(W, now, aiAgent, to, value, NoData, callee)
      IN r.ok => /\ Tx(r.w, r.ret).confirmationCount = 1
                 /\ ConfirmersIn(r.w, r.ret) = {aiAgent}
                 /\ ~Tx(r.w, r.ret).executed

C33_AgentAloneNeverExecutes ==
  [][\A i \in 1..Len(transactions') :
       (BecomesExecuted(i) /\ requiredConfirmations' > 1) =>
         \E o \in Account \ {aiAgent} : <<i - 1, o>> \in isConfirmed']_vars

C33_AgentHasNoLedgerAuthority ==
  /\ []C33_AgentNeedsOwnership
  /\ []C33_AgentSubmitStaysPending
  /\ C33_AgentAloneNeverExecutes

\* a day after the agent, an owner, submitted transaction 0 in a wallet that
\* requires two confirmations, the transaction is still pending with the
\* agent's confirmation alone, and the agent can neither confirm it again
\* nor execute it
C33_Witness ==
  /\ last.op = "advanceTime"
  /\ isOwner[aiAgent]
  /\ requiredConfirmations = 2
  /\ Len(transactions) = 1
  /\ submitter[1] = aiAgent
  /\ ConfirmersOf(0) = {aiAgent}
  /\ ~Tx(W, 0).executed
  /\ ~confirmTransaction(W, now, aiAgent, 0, Plain(TRUE)).ok
  /\ executeTransaction(W, now, aiAgent, 0, Plain(TRUE)).err = "cannot execute tx"


(***************************************************************************)
(* C34: mint of SennaToken succeeds exactly for the caller stored in the   *)
(* sennaWallet slot, and then raises totalSupply and the balance of the    *)
(* recipient by the value minted and changes nothing else; the slot        *)
(* changes only in a setSennaWallet called by the token owner; and         *)
(* totalSupply grows only in a mint that the address in the slot calls:    *)
(* directly, or, when the wallet is in the slot, as the transfer of a      *)
(* transaction or of executeAITransaction, or, when the target of such a   *)
(* transfer is in the slot, before the target returns.                     *)
(***************************************************************************)
C34_MintResult ==
  \A sender \in Account \cup {WalletAddress}, to \in Address,
     value \in TokenAmounts :
    LET r == mint(token, sender, to, value)
    IN /\ r.ok <=> sender = token.sennaWallet
       /\ ~r.ok => r.w = token
       /\ r.ok => r.w = [token EXCEPT
                           !.totalSupply = @ + value,
                           !.balanceOf[to] = @ + value]

C34_SlotAndSupplyStep ==
  [][/\ token'.sennaWallet # token.sennaWallet =>
          /\ last'.op = "setSennaWallet"
          /\ last'.sender = token.owner
          /\ token'.sennaWallet = last'.addr
     /\ token'.owner = token.owner
     /\ token'.totalSupply > token.totalSupply =>
          \/ /\ last'.op = "mint"
             /\ last'.sender = token.sennaWallet
             /\ token'.totalSupply = token.totalSupply + last'.ret
             /\ token'.balanceOf[last'.addr]
                  = token.balanceOf[last'.addr] + last'.ret
          \/ /\ \E i \in DOMAIN last'.calls : last'.calls[i].op = "mint"
             /\ \A i \in DOMAIN last'.calls :
                  last'.calls[i].op = "mint"
                    => last'.calls[i].sender = token.sennaWallet
             /\ Len(last'.calls) = 1 =>
                  \E to \in Holder :
                    token'.balanceOf =
                      [token.balanceOf EXCEPT
                         ![to] = @ + token'.totalSupply
                                   - token.totalSupply]]_vars

C34_TokenMintGate == []C34_MintResult /\ C34_SlotAndSupplyStep

\* the wallet, put into the slot by the token owner, has just minted to B
\* in the transfer of a transaction that an owner submitted; the token
\* owner, no longer in the slot, cannot mint
C34_Witness ==
  /\ last.op = "submitTransaction"
  /\ last.addr = TokenAddress
  /\ Tx(W, last.txId).executed
  /\ Tx(W, last.txId).data.fn = "mint"
  /\ token.sennaWallet = WalletAddress
  /\ token.owner = TokenDeployer
  /\ token.balanceOf["B"] = Tx(W, last.txId).data.value
  /\ token.balanceOf["B"] > 0
  /\ token.totalSupply = InitialSupply + token.balanceOf["B"]
  /\ ~mint(token, token.owner, "B", 1).ok


(***************************************************************************)
(* C35: when a transaction becomes executed, at least                      *)
(* requiredConfirmations of its confirmations are those of accounts that   *)
(* are owners at that moment: the confirmation of an owner removed since   *)
(* does not count.                                                         *)
(***************************************************************************)
C35_QuorumOfCurrentOwners ==
  [][\A i \in 1..Len(transactions') :
       BecomesExecuted(i) =>
         Cardinality({o \in Account :
                        isOwner'[o] /\ <<i - 1, o>> \in isConfirmed'})
           >= requiredConfirmations']_vars


(***************************************************************************)
(* C36: in every reachable state every transaction that is not executed    *)
(* has confirmationCount < requiredConfirmations, also after removeOwner   *)
(* has lowered requiredConfirmations; so executeTransaction called         *)
(* directly never succeeds, and an owner who has not confirmed a           *)
(* transaction is never the one who executes it.                           *)
(***************************************************************************)
C36_PendingBelowQuorum ==
  \A txId \in TxIds :
    ~Tx(W, txId).executed =>
      Tx(W, txId).confirmationCount < requiredConfirmations

C36_ExecutorHasConfirmed ==
  [][\A i \in 1..Len(transactions') :
       BecomesExecuted(i) =>
         /\ last'.op # "executeTransaction"
         /\ <<i - 1, last'.sender>> \in isConfirmed']_vars

C36_PendingNeverAtQuorum ==
  []C36_PendingBelowQuorum /\ C36_ExecutorHasConfirmed


(***************************************************************************)
(* C37: in every reachable state an account passes the owner check         *)
(* (isOwner) if and only if it is an entry of the owners array, the list   *)
(* that getOwners returns.                                                 *)
(***************************************************************************)
C37_ListMatchesMapping ==
  \A a \in Address :
    isOwner[a] <=> \E i \in 1..Len(owners) : owners[i] = a

(***************************************************************************)
(* C38: in every reachable state requiredConfirmations is at most the      *)
(* number of distinct accounts that pass the owner check, so that the      *)
(* owners can always bring a pending transaction to the threshold.         *)
(***************************************************************************)
C38_QuorumAttainable ==
  requiredConfirmations <= Cardinality(OwnersOf(W))


(***************************************************************************)
(* C39: in every reachable state the confirmationCount of a transaction is *)
(* the number of accounts whose isConfirmed entry for it is set; the count *)
(* changes only by +1, in a confirmTransaction that succeeds (called       *)
(* directly, from submitTransaction at line 177, or by the target of a     *)
(* transfer before it returns) and records the caller, and it does not     *)
(* change once the transaction is executed.  A step is a whole call: the   *)
(* count of a transaction grows in it by one for every confirmTransaction  *)
(* that ran on it in the call, each by an account that had not confirmed   *)
(* it, and by nothing else.                                                *)
(***************************************************************************)
C39_CountIsConfirmers ==
  /\ \A txId \in TxIds :
       Tx(W, txId).confirmationCount = Cardinality(ConfirmersOf(txId))
  /\ \A p \in isConfirmed : p[1] \in TxIds

C39_CountStep ==
  [][\A txId \in 0..(Len(transactions') - 1) :
       LET known == txId < Len(transactions)
           old == IF known THEN transactions[txId + 1].confirmationCount
                  ELSE 0
           new == transactions'[txId + 1].confirmationCount
           added == {a \in Account : /\ <<txId, a>> \in isConfirmed'
                                     /\ <<txId, a>> \notin isConfirmed}
           ran == {i \in DOMAIN last'.confirmed :
                     last'.confirmed[i][1] = txId}
       IN /\ new = old + Cardinality(added)
          /\ new = old + Cardinality(ran)
          /\ \A a \in added : <<txId, a>> \in Confirmed(last')
          /\ \A i \in ran : last'.confirmed[i][2] \in added
          /\ (known /\ transactions[txId + 1].executed) => new = old]_vars

C39_ConfirmationCount ==
  []C39_CountIsConfirmers /\ C39_CountStep

\* a transaction executed with two confirmations in a wallet from which one
\* of the two confirmers has been removed since: the count is still 2
C39_Witness ==
  /\ Len(transactions) = 1
  /\ Tx(W, 0).executed
  /\ Tx(W, 0).confirmationCount = 2
  /\ \E o \in ConfirmersOf(0) : ~isOwner[o]
  /\ last.op = "removeOwner"


(***************************************************************************)
(* C40: limits are checked at submission only.  Whether executeTransaction *)
(* succeeds, called directly or from confirmTransaction, is decided by the *)
(* caller being an owner, the transaction existing and not being executed, *)
(* confirmationCount >= requiredConfirmations and the outcome of the       *)
(* transfer; it is the same under every dailyLimit, transactionLimit and   *)
(* dailySpent.  A pending transaction accepted under earlier limits is     *)
(* executed after updateSettings has lowered them.                         *)
(***************************************************************************)
\* the storage with other limits and other amounts spent, under the
\* threshold as it stands or as removeOwner has lowered it
C40_Storage(req, tried) ==
  [W EXCEPT !.requiredConfirmations = req,
            !.settings.dailyLimit = tried[1],
            !.settings.transactionLimit = tried[2],
            !.dailySpent = [a \in DOMAIN @ |-> tried[3]]]

\* <<dailyLimit, transactionLimit, dailySpent of every account>> that are
\* tried: the limits in force with nothing spent, and limits that no
\* positive value passes with more spent than every dailyLimit
C40_Tried ==
  {<<settings.dailyLimit, settings.transactionLimit, 0>>,
   <<0, 0, DefaultDailyLimit + 1>>}

C40_ExecuteIgnoresLimits ==
  \A sender \in Account, txId \in 0..Len(transactions), callee \in CalleesWindow,
     req \in 1..requiredConfirmations :
    LET may == /\ isOwner[sender]
               /\ txId < Len(transactions)
               /\ ~Tx(W, txId).executed
               /\ Tx(W, txId).confirmationCount >= req
               /\ callee.ok
    IN \A tried \in C40_Tried :
         LET r == executeTransaction(C40_Storage(req, tried), now,
                                     sender, txId, callee)
         IN /\ r.ok <=> may
            /\ r.ok => Tx(r.w, txId).executed

C40_CascadeIgnoresLimits ==
  \A sender \in Account, txId \in 0..Len(transactions), callee \in CalleesWindow :
    LET may == /\ isOwner[sender]
               /\ txId < Len(transactions)
               /\ ~Tx(W, txId).executed
               /\ <<txId, sender>> \notin isConfirmed
        quorum == may /\ Tx(W, txId).confirmationCount + 1
                           >= requiredConfirmations
    IN \A tried \in C40_Tried :
         LET r == confirmTransaction(
                    C40_Storage(requiredConfirmations, tried), now,
                    sender, txId, callee)
         IN /\ r.ok <=> (may /\ (quorum => callee.ok))
            /\ r.ok => (Tx(r.w, txId).executed <=> quorum)

\* updateSettings leaves the ledger, the confirmations and the threshold as
\* they are: what was pending under the earlier limits is pending under the
\* new ones
C40_UpdateKeepsPending ==
  \A sender \in Account, limits \in Limits :
    LET r == updateSettings(W, sender, limits[1], limits[2],
                            settings.recoveryAgent)
    IN /\ r.w.transactions = transactions
       /\ r.w.isConfirmed = isConfirmed
       /\ r.w.requiredConfirmations = requiredConfirmations

C40_LimitsAtSubmissionOnly ==
  [](/\ C40_ExecuteIgnoresLimits
     /\ C40_CascadeIgnoresLimits
     /\ C40_UpdateKeepsPending)

\* a transaction above the transactionLimit now in force, submitted before
\* updateSettings lowered the limit, has just been executed by the second
\* confirmation
C40_Witness ==
  /\ last.op = "confirmTransaction"
  /\ Tx(W, last.txId).executed
  /\ Tx(W, last.txId).value > settings.transactionLimit
  /\ requiredConfirmations = 2

====
